---- MODULE Spec2Model ----
(***************************************************************************)
(* Agentus: bytecode compiler and register VM.                             *)
(*                                                                         *)
(* The model follows the crates of the repository:                         *)
(*   agentus-ir       instruction words, opcodes, module and constant pool *)
(*   agentus-sema     the resolver (name-in-scope check)                   *)
(*   agentus-codegen  the compiler (AST -> Module)                         *)
(*   agentus-runtime  the VM (dispatch loop, frames, agents, mailboxes)    *)
(* An input is a parsed program (run through resolve -> compile -> run) or *)
(* a hand-built Module handed to VM::new, as the VM's own unit tests do.   *)
(***************************************************************************)
EXTENDS Integers, Sequences, FiniteSets, TLC

VARIABLES
  input,          \* the input of this run: a parsed Program or a Module
  stage,          \* pipeline position: "source" "lexed" "parsed" "resolved"
                  \* "compiled" "running" "done"
  error,          \* <<>> or <<stage-name, message>> of the error that ended the run
  module,         \* the compiled Module (constants, functions, agents, entry)
  call_stack,     \* VM.call_stack: sequence of CallFrame, top is the last
  agents,         \* VM.agents: id -> AgentInstance
  next_agent_id,  \* VM.next_agent_id
  outputs,        \* VM.outputs: emitted values in order
  heap,           \* storage of the Rc<RefCell<..>> containers (lists, iterators)
  mail_events,    \* history: per agent, the Send / Recv events in issue order
  host,           \* VM.host: which HostInterface the VM was given
  host_calls,     \* history: the requests handed to the host, in order
  sink            \* history: the calls made on VM.output (on_emit / on_log)

vars == <<input, stage, error, module, call_stack, agents, next_agent_id,
          outputs, heap, mail_events, host, host_calls, sink>>

(***************************************************************************)
(* Option<T>: None is <<>>, Some(x) is <<x>>.                              *)
(***************************************************************************)
None == <<>>
Some(x) == <<x>>
IsSome(o) == o # <<>>
Unwrap(o) == o[1]

(***************************************************************************)
(* agentus-ir/opcode.rs: the opcode bytes.                                 *)
(***************************************************************************)
OpTable ==
  << <<"Nop", 0>>, <<"Halt", 1>>,
     <<"LoadConst", 16>>, <<"LoadNone", 17>>, <<"LoadTrue", 18>>,
     <<"LoadFalse", 19>>, <<"Move", 20>>,
     <<"MLoad", 32>>, <<"MStore", 33>>, <<"GLoad", 34>>, <<"GStore", 35>>,
     <<"Add", 48>>, <<"Sub", 49>>, <<"Mul", 50>>, <<"Div", 51>>,
     <<"Mod", 52>>, <<"Neg", 53>>,
     <<"Eq", 64>>, <<"Neq", 65>>, <<"Lt", 66>>, <<"Lte", 67>>,
     <<"Gt", 68>>, <<"Gte", 69>>,
     <<"And", 72>>, <<"Or", 73>>, <<"Not", 74>>,
     <<"Concat", 80>>, <<"StrLen", 81>>, <<"Format", 82>>, <<"Substr", 83>>,
     <<"NewList", 88>>, <<"NewMap", 89>>, <<"IndexGet", 90>>,
     <<"IndexSet", 91>>, <<"Len", 92>>, <<"ListPush", 93>>,
     <<"Jmp", 96>>, <<"JmpTrue", 97>>, <<"JmpFalse", 98>>,
     <<"Call", 104>>, <<"Ret", 105>>, <<"RetNone", 106>>,
     <<"Exec", 112>>, <<"ExecStructured", 113>>,
     <<"Spawn", 120>>, <<"Send", 121>>, <<"Recv", 122>>,
     <<"RecvTimeout", 123>>, <<"Wait", 124>>, <<"Kill", 125>>,
     <<"TCall", 128>>, <<"PipelineRun", 136>>,
     <<"Emit", 144>>, <<"Log", 145>>,
     <<"TryBegin", 152>>, <<"TryEnd", 153>>, <<"Throw", 154>>,
     <<"GetError", 155>>, <<"Yield", 160>>,
     <<"IterInit", 168>>, <<"IterNext", 169>>,
     <<"TypeOf", 176>>, <<"Cast", 177>> >>

\* OpCode::to_byte: the discriminant of the opcode.
to_byte(op) ==
  LET i == CHOOSE k \in 1..Len(OpTable) : OpTable[k][1] = op IN OpTable[i][2]

\* OpCode::from_byte: Some(opcode) for a known byte, None otherwise.
from_byte(byte) ==
  IF \E k \in 1..Len(OpTable) : OpTable[k][2] = byte
  THEN Some(OpTable[CHOOSE k \in 1..Len(OpTable) : OpTable[k][2] = byte][1])
  ELSE None

(***************************************************************************)
(* agentus-ir/instruction.rs: a 32-bit word, kept as its four bytes        *)
(* <<bits 31..24, bits 23..16, bits 15..8, bits 7..0>>.                    *)
(***************************************************************************)
U8 == 256
U16 == 65536
U24 == 16777216

abc(op, a, b, c) == <<to_byte(op), a % U8, b % U8, c % U8>>

abx(op, a, bx) == <<to_byte(op), a % U8, (bx \div U8) % U8, bx % U8>>

\* sbx as u16 as u32: the two's complement of the signed offset.
asbx(op, a, sbx16) ==
  LET u == sbx16 % U16 IN <<to_byte(op), a % U8, u \div U8, u % U8>>

\* (offset as u32) & 0x00FF_FFFF
sbx(op, offset) ==
  LET masked == offset % U24
  IN <<to_byte(op), masked \div U16, (masked \div U8) % U8, masked % U8>>

op_only(op) == <<to_byte(op), 0, 0, 0>>

op_a(op, a) == <<to_byte(op), a % U8, 0, 0>>

opcode_byte(w) == w[1]
opcode(w) == from_byte(opcode_byte(w))
inst_a(w) == w[2]
inst_b(w) == w[3]
inst_c(w) == w[4]
inst_bx(w) == w[3] * U8 + w[4]

\* self.0 as u16 as i16
sbx_16(w) ==
  LET u == inst_bx(w) IN IF u >= U16 \div 2 THEN u - U16 ELSE u

\* The 24 bits read as an unsigned number
sbx_24_unsigned(w) == w[2] * U16 + w[3] * U8 + w[4]

\* sign-extend from 24 bits
sbx_24(w) ==
  LET raw == w[2] * U16 + w[3] * U8 + w[4]
  IN IF raw >= U24 \div 2 THEN raw - U24 ELSE raw

(***************************************************************************)
(* HashMap<K, V> as a function; insert replaces the entry of an equal key. *)
(***************************************************************************)
EmptyMap == [x \in {} |-> 0]
MapInsert(m, k, v) == [x \in (DOMAIN m) \cup {k} |-> IF x = k THEN v ELSE m[x]]
MapHas(m, k) == k \in DOMAIN m

(***************************************************************************)
(* agentus-ir/module.rs: constants, functions, descriptors, the module.    *)
(* A Constant is a tagged record; the unused payload fields are fixed.     *)
(***************************************************************************)
CNone == [t |-> "None", n |-> 0, s |-> ""]
CBool(b) == [t |-> "Bool", n |-> IF b THEN 1 ELSE 0, s |-> ""]
CNum(n) == [t |-> "Num", n |-> n, s |-> ""]
CStr(s) == [t |-> "Str", n |-> 0, s |-> s]

Function(name_idx, num_params, num_registers, instructions) ==
  [name_idx |-> name_idx, num_params |-> num_params,
   num_registers |-> num_registers, instructions |-> instructions]

AgentMemoryField(name_idx, default_idx) ==
  [name_idx |-> name_idx, default_idx |-> default_idx]

AgentDescriptor(name_idx, model_idx, system_prompt_idx, memory_fields, methods) ==
  [name_idx |-> name_idx, model_idx |-> model_idx,
   system_prompt_idx |-> system_prompt_idx,
   memory_fields |-> memory_fields, methods |-> methods]

\* The tool-descriptor table of the module: the descriptor types and the two
\* accessors the compiler and the VM call (builder.add_tool, module.get_tool)
ToolParamDescriptor(name_idx, default_idx) ==
  [name_idx |-> name_idx, default_idx |-> default_idx]

ToolDescriptor(name_idx, description_idx, params) ==
  [name_idx |-> name_idx, description_idx |-> description_idx, params |-> params]

\* Module::new
NewModule ==
  [constants |-> <<>>, functions |-> <<>>, agents |-> <<>>, tools |-> <<>>,
   entry_function |-> 0]

\* Constant::Num(f64::NAN) and Constant::Num(-0.0): the numbers of the pool
\* that `==` does not compare as it compares the others
CNaN == [t |-> "Num", n |-> 0, s |-> "NaN"]
CNegZero == [t |-> "Num", n |-> 0, s |-> "-0"]

\* #[derive(PartialEq)] on Constant: the same variant and `==` on the
\* payload; on f64 NaN equals nothing and -0.0 equals 0.0
constant_eq(a, b) ==
  /\ a.t = b.t
  /\ IF a.t = "Num"
     THEN /\ a.s # "NaN" /\ b.s # "NaN"
          /\ a.n = b.n
          /\ (IF a.s = "-0" THEN "" ELSE a.s) = (IF b.s = "-0" THEN "" ELSE b.s)
     ELSE a = b

\* Module::add_constant: the index of the first constant that is == c, else a
\* new last index; the assert panics when the pool holds more than u16::MAX
\* constants.  Returns the module after the call and the index.
add_constant(m, c) ==
  IF \E i \in 1..Len(m.constants) : constant_eq(m.constants[i], c)
  THEN [module |-> m,
        idx |-> (CHOOSE i \in 1..Len(m.constants) :
                   /\ constant_eq(m.constants[i], c)
                   /\ \A j \in 1..(i - 1) : ~constant_eq(m.constants[j], c)) - 1,
        panic |-> FALSE]
  ELSE IF Len(m.constants) > U16 - 1
  THEN [module |-> m, idx |-> 0, panic |-> TRUE]
  ELSE [module |-> [m EXCEPT !.constants = Append(@, c)],
        idx |-> Len(m.constants), panic |-> FALSE]

\* Module::add_function
add_function(m, f) ==
  [module |-> [m EXCEPT !.functions = Append(@, f)], idx |-> Len(m.functions)]

\* Module::add_agent
add_agent(m, d) ==
  [module |-> [m EXCEPT !.agents = Append(@, d)], idx |-> Len(m.agents)]

\* ModuleBuilder::add_tool
add_tool(m, d) ==
  [module |-> [m EXCEPT !.tools = Append(@, d)], idx |-> Len(m.tools)]

\* Module::get_tool
get_tool(m, idx) ==
  IF idx < Len(m.tools) THEN Some(m.tools[idx + 1]) ELSE None

\* Module::get_constant / get_function / get_agent: Option of the entry.
get_constant(m, idx) ==
  IF idx < Len(m.constants) THEN Some(m.constants[idx + 1]) ELSE None
get_function(m, idx) ==
  IF idx < Len(m.functions) THEN Some(m.functions[idx + 1]) ELSE None
get_agent(m, idx) ==
  IF idx < Len(m.agents) THEN Some(m.agents[idx + 1]) ELSE None

(***************************************************************************)
(* agentus-parser/ast.rs: the AST the parser hands on.                     *)
(***************************************************************************)
StringLit(s) == [k |-> "StringLit", s |-> s]
NumberLit(n) == [k |-> "NumberLit", n |-> n]
BoolLit(b) == [k |-> "BoolLit", b |-> b]
NoneLit == [k |-> "NoneLit"]
Ident(name) == [k |-> "Ident", name |-> name]
BinOp(left, op, right) == [k |-> "BinOp", left |-> left, op |-> op, right |-> right]
UnaryOp(op, expr) == [k |-> "UnaryOp", op |-> op, expr |-> expr]
FnCall(name, args) == [k |-> "FnCall", name |-> name, args |-> args]
MethodCall(obj, method, args) ==
  [k |-> "MethodCall", obj |-> obj, method |-> method, args |-> args]
FieldAccess(obj, field) == [k |-> "FieldAccess", obj |-> obj, field |-> field]
IndexAccess(obj, index) == [k |-> "IndexAccess", obj |-> obj, index |-> index]
ListLit(elems) == [k |-> "ListLit", elems |-> elems]
RecvExpr(target) == [k |-> "Recv", target |-> target]

LetStmt(name, value) == [k |-> "Let", name |-> name, value |-> value]
EmitStmt(value) == [k |-> "Emit", value |-> value]
ReturnStmt(value) == [k |-> "Return", value |-> value]
ExprStmt(expr) == [k |-> "ExprStmt", expr |-> expr]
AssignStmt(name, value) == [k |-> "Assign", name |-> name, value |-> value]
IfStmt(condition, then_body, else_body) ==
  [k |-> "If", condition |-> condition, then_body |-> then_body,
   else_body |-> else_body]
WhileStmt(condition, body) == [k |-> "While", condition |-> condition, body |-> body]
ForStmt(variable, iterable, body) ==
  [k |-> "For", variable |-> variable, iterable |-> iterable, body |-> body]
FnDef(name, params, body) ==
  [k |-> "FnDef", name |-> name, params |-> params, body |-> body]
MemoryField(name, default) == [name |-> name, default |-> default]
AgentDef(name, model, system_prompt, memory_fields, methods) ==
  [k |-> "AgentDef", name |-> name, model |-> model,
   system_prompt |-> system_prompt, memory_fields |-> memory_fields,
   methods |-> methods]
FieldAssignStmt(object, field, value) ==
  [k |-> "FieldAssign", object |-> object, field |-> field, value |-> value]
SendStmt(target, message) == [k |-> "Send", target |-> target, message |-> message]
ToolParam(name, default) == [name |-> name, default |-> default]
ToolDef(name, description, params) ==
  [k |-> "ToolDef", name |-> name, description |-> description, params |-> params]
ExecBlock(prompt) == [k |-> "ExecBlock", prompt |-> prompt]

(***************************************************************************)
(* agentus-codegen/compiler.rs: FunctionEmitter.                           *)
(* An emitter is a record; `err` is the Err(..) a `?` has returned (every  *)
(* later step of the emitter is then skipped), `reg` / `regs` / `idx` hold *)
(* the value the last helper returned.                                     *)
(***************************************************************************)
\* FunctionEmitter::new
NewEmitter(builder) ==
  [builder |-> builder, instructions |-> <<>>, locals |-> EmptyMap,
   next_register |-> 0, function_table |-> <<>>, agent_table |-> <<>>,
   tool_table |-> <<>>, err |-> None, reg |-> 0, regs |-> <<>>, idx |-> 0]

fail_with(em, msg) == IF em.err # None THEN em ELSE [em EXCEPT !.err = Some(msg)]

\* FunctionEmitter::alloc_register (the assert is a panic)
alloc_register(em) ==
  IF em.err # None THEN em
  ELSE IF em.next_register >= 255
       THEN fail_with(em, "panic: register overflow: too many local variables")
       ELSE [em EXCEPT !.reg = em.next_register, !.next_register = @ + 1]

\* FunctionEmitter::emit
emit(em, inst) ==
  IF em.err # None THEN em ELSE [em EXCEPT !.instructions = Append(@, inst)]

\* self.instructions[pos] = inst
patch(em, pos, inst) ==
  IF em.err # None THEN em ELSE [em EXCEPT !.instructions[pos + 1] = inst]

\* FunctionEmitter::current_offset
current_offset(em) == Len(em.instructions)

\* self.locals.insert(name, reg)
bind_local(em, name, reg) ==
  IF em.err # None THEN em ELSE [em EXCEPT !.locals = MapInsert(@, name, reg)]

\* ModuleBuilder::add_string_constant and its siblings, on the emitter's builder
add_const(em, c) ==
  IF em.err # None THEN em
  ELSE LET r == add_constant(em.builder, c)
       IN IF r.panic THEN fail_with(em, "constant pool overflow")
          ELSE [em EXCEPT !.builder = r.module, !.idx = r.idx]
add_string_constant(em, s) == add_const(em, CStr(s))
add_num_constant(em, n) == add_const(em, CNum(n))
add_bool_constant(em, b) == add_const(em, CBool(b))
add_none_constant(em) == add_const(em, CNone)

\* `x as i16`
as_i16(x) == LET u == x % U16 IN IF u >= U16 \div 2 THEN u - U16 ELSE u

\* An offset measured from the jump word itself
jump_offset_from_jump_word(target, jump_word) == target - jump_word

\* An exhaustion offset measured from the extra-data word
iter_exit_offset_from_extra_word(after_loop, iter_next_pos) ==
  after_loop - iter_next_pos - 1

\* The offset of a Jmp / JmpFalse at word `jump_word` that lands on `target`.
jump_offset(target, jump_word) == target - jump_word - 1

\* The exhaustion offset of an IterNext group at `iter_next_pos`.
iter_exit_offset(after_loop, iter_next_pos) == after_loop - iter_next_pos - 2

\* Vec<(String, u32)>::iter().find(|(n, _)| n == name)
table_find(table, name) ==
  IF \E i \in 1..Len(table) : table[i][1] = name
  THEN Some(table[CHOOSE i \in 1..Len(table) :
                    /\ table[i][1] = name
                    /\ \A j \in 1..(i - 1) : table[j][1] # name][2])
  ELSE None

RECURSIVE compile_stmt(_, _), compile_body(_, _), compile_expr(_, _)
RECURSIVE compile_args(_, _), copy_args(_, _), bind_params(_, _)
RECURSIVE build_memory_fields(_, _), compile_methods(_, _)
RECURSIVE build_tool_params(_, _), fill_defaults(_, _, _)

\* The emitter with `reg` as the value just returned
with_reg(em, reg) == IF em.err # None THEN em ELSE [em EXCEPT !.reg = reg]
\* arg_regs.push(reg), on the list `regs` built so far
push_reg(em, regs) == IF em.err # None THEN em ELSE [em EXCEPT !.regs = Append(regs, em.reg)]
clear_regs(em) == [em EXCEPT !.regs = <<>>]
reg_at(em, i) == IF i <= Len(em.regs) THEN em.regs[i] ELSE 0

\* let r = self.alloc_register(); self.emit(Instruction::abc(op, r, b, c)); Ok(r)
alloc_emit_abc(em, op, b, c) ==
  LET e1 == alloc_register(em) IN with_reg(emit(e1, abc(op, e1.reg, b, c)), e1.reg)
\* let r = self.alloc_register(); self.emit(Instruction::abx(op, r, bx)); Ok(r)
alloc_emit_abx(em, op, bx) ==
  LET e1 == alloc_register(em) IN with_reg(emit(e1, abx(op, e1.reg, bx)), e1.reg)
\* let r = self.alloc_register(); self.emit(Instruction::op_a(op, r)); Ok(r)
alloc_emit_a(em, op) ==
  LET e1 == alloc_register(em) IN with_reg(emit(e1, op_a(op, e1.reg)), e1.reg)

\* for s in body { self.compile_stmt(s)?; }
compile_body(em, body) ==
  IF em.err # None \/ body = <<>> THEN em
  ELSE compile_body(compile_stmt(em, Head(body)), Tail(body))

\* for arg in args { arg_regs.push(self.compile_expr(arg)?); }  (regs accumulates)
compile_args(em, args) ==
  IF em.err # None \/ args = <<>> THEN em
  ELSE LET pushed(e1) ==
             IF e1.err # None THEN e1
             ELSE compile_args(push_reg(e1, em.regs), Tail(args))
       IN pushed(compile_expr(em, Head(args)))

\* for &src in &arg_regs { let dest = alloc_register(); if src != dest { Move } }
copy_args(em, arg_regs) ==
  IF em.err # None \/ arg_regs = <<>> THEN em
  ELSE LET e1 == alloc_register(em)
       IN copy_args(IF Head(arg_regs) # e1.reg
                    THEN emit(e1, abc("Move", e1.reg, Head(arg_regs), 0))
                    ELSE e1,
                    Tail(arg_regs))

\* for param in params { let reg = alloc_register(); locals.insert(param, reg); }
bind_params(em, params) ==
  IF em.err # None \/ params = <<>> THEN em
  ELSE LET e1 == alloc_register(em)
       IN bind_params(bind_local(e1, Head(params), e1.reg), Tail(params))

\* self.instructions[pos] = asbx(JmpFalse, cond_reg, (here as i16) - (pos as i16) - 1)
patch_jmp_false(em, pos, cond_reg) ==
  patch(em, pos, asbx("JmpFalse", cond_reg,
                      jump_offset(as_i16(current_offset(em)), as_i16(pos))))

\* self.instructions[pos] = sbx(Jmp, (here as i32) - (pos as i32) - 1)
patch_jmp(em, pos) ==
  patch(em, pos, sbx("Jmp", jump_offset(current_offset(em), pos)))

\* A jump back that lands on the word after loop_start
emit_jump_back_past_start(em, loop_start) ==
  emit(em, sbx("Jmp", jump_offset(loop_start + 1, current_offset(em))))

\* let jump_back = current_offset(); emit(sbx(Jmp, loop_start - jump_back - 1))
emit_jump_back(em, loop_start) ==
  emit(em, sbx("Jmp", jump_offset(loop_start, current_offset(em))))

\* FunctionEmitter::compile_if
compile_if(em, st) ==
  LET after_else(e5, jump_over) ==
        IF e5.err # None THEN e5 ELSE patch_jmp(e5, jump_over)
      else_part(e3, cond_reg, jump_to_else) ==
        \* e3: after the then body; the placeholder Jmp, the patch, the else body
        after_else(compile_body(patch_jmp_false(emit(e3, sbx("Jmp", 0)),
                                                jump_to_else, cond_reg),
                                Unwrap(st.else_body)),
                   current_offset(e3))
      after_then(e3, cond_reg, jump_to_else) ==
        IF e3.err # None THEN e3
        ELSE IF IsSome(st.else_body) THEN else_part(e3, cond_reg, jump_to_else)
        ELSE patch_jmp_false(e3, jump_to_else, cond_reg)
      after_cond(e1) ==
        IF e1.err # None THEN e1
        ELSE after_then(compile_body(emit(e1, asbx("JmpFalse", e1.reg, 0)),
                                     st.then_body),
                        e1.reg, current_offset(e1))
  IN after_cond(compile_expr(em, st.condition))

\* FunctionEmitter::compile_while
compile_while(em, st) ==
  LET after_body(e3, jump_to_end, cond_reg) ==
        IF e3.err # None THEN e3
        ELSE patch_jmp_false(emit_jump_back(e3, current_offset(em)),
                             jump_to_end, cond_reg)
      after_cond(e1) ==
        IF e1.err # None THEN e1
        ELSE after_body(compile_body(emit(e1, asbx("JmpFalse", e1.reg, 0)), st.body),
                        current_offset(e1), e1.reg)
  IN after_cond(compile_expr(em, st.condition))

\* self.instructions[pos] = asbx(IterNext, var_reg, (here as i16) - (pos as i16) - 2)
patch_iter_next(em, pos, var_reg) ==
  patch(em, pos, asbx("IterNext", var_reg,
                      iter_exit_offset(as_i16(current_offset(em)), as_i16(pos))))

\* FunctionEmitter::compile_for
compile_for(em, st) ==
  LET after_body(e7, loop_start, var_reg) ==
        IF e7.err # None THEN e7
        ELSE patch_iter_next(emit_jump_back(e7, loop_start), loop_start, var_reg)
      loop(e5, iter_reg, var_reg) ==
        \* e5: the loop variable is bound; loop_start = iter_next_pos = here
        IF e5.err # None THEN e5
        ELSE after_body(compile_body(emit(emit(e5, asbx("IterNext", var_reg, 0)),
                                          abc("Nop", 0, iter_reg, 0)),
                                     st.body),
                        current_offset(e5), var_reg)
      with_var(e4, iter_reg) == loop(bind_local(e4, st.variable, e4.reg), iter_reg, e4.reg)
      with_iter(e3) == with_var(alloc_register(e3), e3.reg)
      after_source(e1) ==
        IF e1.err # None THEN e1
        ELSE with_iter(alloc_emit_abc(e1, "IterInit", e1.reg, 0))
  IN after_source(compile_expr(em, st.iterable))

\* A body compiled in a fresh emitter with empty tables
compile_fn_body_without_tables(em, func) ==
  LET after_body(fe) == IF fe.err # None THEN fe ELSE emit(fe, op_only("RetNone"))
  IN after_body(compile_body(bind_params(NewEmitter(em.builder), func.params),
                             func.body))
\* The body of a fn or of a method in a fresh emitter that inherits the tables;
\* the result is that emitter after the trailing RetNone.
compile_fn_body(em, func) ==
  LET after_body(fe) == IF fe.err # None THEN fe ELSE emit(fe, op_only("RetNone"))
  IN after_body(compile_body(bind_params([NewEmitter(em.builder) EXCEPT
                                            !.function_table = em.function_table,
                                            !.agent_table = em.agent_table,
                                            !.tool_table = em.tool_table],
                                         func.params),
                             func.body))

\* Function { name_idx: add_string_constant(name), .. }; add_function(..):
\* the builder after both, and the function's index
add_compiled_function(fe, func) ==
  LET c == add_constant(fe.builder, CStr(func.name))
  IN add_function(c.module,
                  Function(c.idx, Len(func.params) % U8, fe.next_register,
                           fe.instructions))

\* FunctionEmitter::compile_fn_def
compile_fn_def(em, func) ==
  LET finish(f) ==
        [em EXCEPT !.builder = f.module,
                   !.function_table = Append(@, <<func.name, f.idx>>),
                   !.locals = MapInsert(@, func.name, 0)]
      after_body(fe) ==
        IF fe.err # None THEN fail_with(em, Unwrap(fe.err))
        ELSE finish(add_compiled_function(fe, func))
  IN after_body(compile_fn_body(em, func))

\* The default of a memory field: a literal's constant, else the None constant.
default_constant(expr) ==
  CASE expr.k = "NumberLit" -> CNum(expr.n)
    [] expr.k = "StringLit" -> CStr(expr.s)
    [] expr.k = "BoolLit" -> CBool(expr.b)
    [] OTHER -> CNone

\* compile_agent_def: the memory field descriptors (regs accumulates them)
build_memory_fields(em, fields) ==
  IF em.err # None \/ fields = <<>> THEN em
  ELSE LET field == Head(fields)
           with_default(e2, name_idx) ==
             [e2 EXCEPT !.regs = Append(@, AgentMemoryField(name_idx,
                          IF IsSome(field.default) THEN Some(e2.idx) ELSE None))]
           with_name(e1) ==
             with_default(IF IsSome(field.default)
                          THEN add_const(e1, default_constant(Unwrap(field.default)))
                          ELSE e1,
                          e1.idx)
       IN build_memory_fields(with_name(add_string_constant(em, field.name)),
                              Tail(fields))

\* compile_agent_def: each method as a separate Function (regs accumulates
\* the (method_name_idx, func_idx) pairs)
compile_methods(em, methods) ==
  IF em.err # None \/ methods = <<>> THEN em
  ELSE LET method == Head(methods)
           finish(e1, f) ==
             [e1 EXCEPT !.builder = f.module, !.regs = Append(@, <<e1.idx, f.idx>>)]
           after_body(e1, fe) ==
             IF fe.err # None THEN fail_with(e1, Unwrap(fe.err))
             ELSE finish(e1, add_compiled_function(fe, method))
           with_name(e1) == IF e1.err # None THEN e1
                            ELSE after_body(e1, compile_fn_body(e1, method))
       IN compile_methods(with_name(add_string_constant(em, method.name)),
                          Tail(methods))

\* agent.model.as_ref().map(|m| add_string_constant(m)): the index is em.idx
add_optional_string(em, opt) ==
  IF IsSome(opt) THEN add_string_constant(em, Unwrap(opt)) ELSE em

\* FunctionEmitter::compile_agent_def
compile_agent_def(em, agent) ==
  LET finish(e5, d) ==
        [e5 EXCEPT !.builder = d.module,
                   !.agent_table = Append(@, <<agent.name, d.idx>>),
                   !.locals = MapInsert(@, agent.name, 0),
                   !.regs = <<>>]
      describe(e5, model_idx, system_prompt_idx, memory_fields, methods) ==
        finish(e5, add_agent(e5.builder,
                     AgentDescriptor(e5.idx, model_idx, system_prompt_idx,
                                     memory_fields, methods)))
      after_methods(e4, model_idx, system_prompt_idx, memory_fields) ==
        IF e4.err # None THEN e4
        ELSE describe(add_string_constant(e4, agent.name), model_idx,
                      system_prompt_idx, memory_fields, e4.regs)
      after_fields(e3, model_idx, system_prompt_idx) ==
        IF e3.err # None THEN e3
        ELSE after_methods(compile_methods(clear_regs(e3), agent.methods),
                           model_idx, system_prompt_idx, e3.regs)
      after_prompt(e2, model_idx) ==
        IF e2.err # None THEN e2
        ELSE after_fields(build_memory_fields(clear_regs(e2), agent.memory_fields),
                          model_idx,
                          IF IsSome(agent.system_prompt) THEN Some(e2.idx) ELSE None)
      after_model(e1) ==
        IF e1.err # None THEN e1
        ELSE after_prompt(add_optional_string(e1, agent.system_prompt),
                          IF IsSome(agent.model) THEN Some(e1.idx) ELSE None)
  IN after_model(add_optional_string(em, agent.model))

\* compile_tool_def: the parameter descriptors (regs accumulates them; the
\* list of their default_idx is param_defaults)
build_tool_params(em, params) ==
  IF em.err # None \/ params = <<>> THEN em
  ELSE LET param == Head(params)
           with_default(e2, param_name_idx) ==
             [e2 EXCEPT !.regs = Append(@, ToolParamDescriptor(param_name_idx,
                          IF IsSome(param.default) THEN Some(e2.idx) ELSE None))]
           with_name(e1) ==
             with_default(IF IsSome(param.default)
                          THEN add_const(e1, default_constant(Unwrap(param.default)))
                          ELSE e1,
                          e1.idx)
       IN build_tool_params(with_name(add_string_constant(em, param.name)),
                            Tail(params))

\* FunctionEmitter::compile_tool_def
compile_tool_def(em, tool) ==
  LET finish(e3, d, params) ==
        [e3 EXCEPT !.builder = d.module,
                   !.tool_table =
                      Append(@, <<tool.name, d.idx,
                                  [i \in 1..Len(params) |-> params[i].default_idx]>>),
                   !.locals = MapInsert(@, tool.name, 0),
                   !.regs = <<>>]
      describe(e3, name_idx, description_idx) ==
        finish(e3, add_tool(e3.builder,
                            ToolDescriptor(name_idx, description_idx, e3.regs)),
               e3.regs)
      after_description(e2, name_idx) ==
        describe(build_tool_params(clear_regs(e2), tool.params), name_idx,
                 IF IsSome(tool.description) THEN Some(e2.idx) ELSE None)
      after_name(e1) == after_description(add_optional_string(e1, tool.description),
                                          e1.idx)
  IN after_name(add_string_constant(em, tool.name))

\* self.tool_table.iter().find(|(n, _, _)| n == name).map(|(_, idx, defaults)| ..)
tool_find(table, name) ==
  IF \E i \in 1..Len(table) : table[i][1] = name
  THEN LET first == CHOOSE i \in 1..Len(table) :
                      /\ table[i][1] = name
                      /\ \A j \in 1..(i - 1) : table[j][1] # name
       IN Some([idx |-> table[first][2], param_defaults |-> table[first][3]])
  ELSE None

\* for i in args.len()..total_params { if let Some(default_idx) = param_defaults[i]
\*   { let reg = alloc_register(); emit(LoadConst reg, default_idx); arg_regs.push(reg) } }
fill_defaults(em, param_defaults, i) ==
  IF em.err # None \/ i >= Len(param_defaults) THEN em
  ELSE fill_defaults(IF IsSome(param_defaults[i + 1])
                     THEN push_reg(alloc_emit_abx(em, "LoadConst",
                                                  Unwrap(param_defaults[i + 1])),
                                   em.regs)
                     ELSE em,
                     param_defaults, i + 1)

\* emit(abx(TCall, result_reg, tool_desc_idx)); emit(abc(Nop, 0, first_arg_reg, n))
emit_tcall(em, bx, first_arg_reg, num_args) ==
  LET e1 == alloc_register(em)
  IN with_reg(emit(emit(e1, abx("TCall", e1.reg, bx)),
                   abc("Nop", 0, first_arg_reg, num_args)),
              e1.reg)

\* compile_expr, FnCall of a tool: the explicit arguments, the defaults of the
\* parameters after them, the copy into a consecutive block, the TCall group
compile_tool_call(em, expr, tool_info) ==
  LET after_defaults(e2) ==
        IF e2.err # None THEN e2
        ELSE emit_tcall(copy_args(e2, e2.regs), tool_info.idx % U16,
                        e2.next_register, Len(e2.regs) % U8)
      after_args(e1) ==
        IF e1.err # None THEN e1
        ELSE after_defaults(fill_defaults(e1, tool_info.param_defaults,
                                          Len(expr.args)))
  IN after_args(compile_args(clear_regs(em), expr.args))

\* emit(abx(Call, result_reg, bx)); emit(abc(Nop, 0, first_arg_reg, num_args))
emit_call(em, bx, first_arg_reg, num_args) ==
  LET e1 == alloc_register(em)
  IN with_reg(emit(emit(e1, abx("Call", e1.reg, bx)),
                   abc("Nop", 0, first_arg_reg, num_args)),
              e1.reg)

\* A resolution that looks for a function before a tool
compile_fn_call_function_first(em, expr) ==
  LET agent_idx == table_find(em.agent_table, expr.name)
      tool_info == tool_find(em.tool_table, expr.name)
      func_idx == table_find(em.function_table, expr.name)
      after_args(e1) ==
        IF e1.err # None THEN e1
        ELSE emit_call(copy_args(e1, e1.regs), Unwrap(func_idx) % U16,
                       e1.next_register, Len(expr.args) % U8)
  IN IF IsSome(agent_idx) THEN alloc_emit_abx(em, "Spawn", Unwrap(agent_idx) % U16)
     ELSE IF IsSome(func_idx) THEN after_args(compile_args(clear_regs(em), expr.args))
     ELSE IF IsSome(tool_info) THEN compile_tool_call(em, expr, Unwrap(tool_info))
     ELSE fail_with(em, "undefined function or tool '" \o expr.name \o "'")

\* compile_expr, FnCall: agent name, then tool name, then function name.
compile_fn_call(em, expr) ==
  LET agent_idx == table_find(em.agent_table, expr.name)
      tool_info == tool_find(em.tool_table, expr.name)
      func_idx == table_find(em.function_table, expr.name)
      after_args(e1) ==
        \* e1.regs are the argument registers, e1.next_register the block start
        IF e1.err # None THEN e1
        ELSE emit_call(copy_args(e1, e1.regs), Unwrap(func_idx) % U16,
                       e1.next_register, Len(expr.args) % U8)
  IN IF IsSome(agent_idx) THEN alloc_emit_abx(em, "Spawn", Unwrap(agent_idx) % U16)
     ELSE IF IsSome(tool_info) THEN compile_tool_call(em, expr, Unwrap(tool_info))
     ELSE IF IsSome(func_idx) THEN after_args(compile_args(clear_regs(em), expr.args))
     ELSE fail_with(em, "undefined function or tool '" \o expr.name \o "'")

\* A method call emitted as a two-word group, without the name word
emit_method_call_without_name(em, first_arg_reg, num_args, method_name_idx) ==
  emit_call(em, 65534, first_arg_reg, num_args)

\* emit(abx(Call, result_reg, 0xFFFE)); emit(abc(Nop, 0, first, n)); emit(abx(Nop, 0, name))
emit_method_call(em, first_arg_reg, num_args, method_name_idx) ==
  with_reg(emit(emit_call(em, 65534, first_arg_reg, num_args),
                abx("Nop", 0, method_name_idx)),
           emit_call(em, 65534, first_arg_reg, num_args).reg)

\* compile_expr, MethodCall: receiver and arguments into a consecutive block,
\* then the three-word group Call A, 0xFFFE / extra B, C / extra Bx.
compile_method_call(em, expr) ==
  LET with_name(e3, first_arg_reg) ==
        emit_method_call(e3, first_arg_reg, (1 + Len(expr.args)) % U8, e3.idx)
      after_args(e1, obj_reg) ==
        IF e1.err # None THEN e1
        ELSE with_name(add_string_constant(copy_args(e1, <<obj_reg>> \o e1.regs),
                                           expr.method),
                       e1.next_register)
      after_obj(e0) ==
        IF e0.err # None THEN e0
        ELSE after_args(compile_args(clear_regs(e0), expr.args), e0.reg)
  IN after_obj(compile_expr(em, expr.obj))

\* FunctionEmitter::compile_expr: the result register is em.reg
compile_expr(em, expr) ==
  IF em.err # None THEN em
  ELSE CASE expr.k = "StringLit" ->
         LET e1 == add_string_constant(em, expr.s)
         IN alloc_emit_abx(e1, "LoadConst", e1.idx)
    [] expr.k = "NumberLit" ->
         LET e1 == add_num_constant(em, expr.n)
         IN alloc_emit_abx(e1, "LoadConst", e1.idx)
    [] expr.k = "BoolLit" ->
         alloc_emit_a(em, IF expr.b THEN "LoadTrue" ELSE "LoadFalse")
    [] expr.k = "NoneLit" -> alloc_emit_a(em, "LoadNone")
    [] expr.k = "Ident" ->
         IF MapHas(em.locals, expr.name) THEN with_reg(em, em.locals[expr.name])
         ELSE fail_with(em, "undefined variable '" \o expr.name \o "'")
    [] expr.k \in {"BinOp", "IndexAccess"} ->
         LET op == IF expr.k = "BinOp" THEN expr.op ELSE "IndexGet"
             both(e2) == IF e2.err # None THEN e2
                         ELSE alloc_emit_abc(e2, op, reg_at(e2, 1), reg_at(e2, 2))
         IN both(compile_args(clear_regs(em),
                              IF expr.k = "BinOp" THEN <<expr.left, expr.right>>
                              ELSE <<expr.obj, expr.index>>))
    [] expr.k \in {"UnaryOp", "Recv"} ->
         LET op == IF expr.k = "UnaryOp" THEN expr.op ELSE "Recv"
             one(e1) == IF e1.err # None THEN e1
                        ELSE alloc_emit_abc(e1, op, e1.reg, 0)
         IN one(compile_expr(em, IF expr.k = "UnaryOp" THEN expr.expr ELSE expr.target))
    [] expr.k = "FnCall" -> compile_fn_call(em, expr)
    [] expr.k = "MethodCall" -> compile_method_call(em, expr)
    [] expr.k = "FieldAccess" ->
         IF expr.obj.k = "Ident" /\ expr.obj.name = "self"
         THEN LET e1 == add_string_constant(em, expr.field)
              IN alloc_emit_abx(e1, "MLoad", e1.idx)
         ELSE fail_with(em, "field access is only supported on 'self'")
    [] expr.k = "ListLit" ->
         LET listed(e1) ==
               IF e1.err # None THEN e1
               ELSE alloc_emit_abc(e1, "NewList", em.next_register,
                                   Len(expr.elems) % U8)
         IN listed(compile_args(clear_regs(em), expr.elems))
    [] expr.k = "MapLit" -> fail_with(em, "map literals not yet implemented")
    [] expr.k = "ExecBlock" ->
         LET exec(e1) == IF e1.err # None THEN e1
                         ELSE alloc_emit_abc(e1, "Exec", e1.reg, 0)
         IN exec(compile_expr(em, expr.prompt))

\* FunctionEmitter::compile_stmt
compile_stmt(em, stmt) ==
  IF em.err # None THEN em
  ELSE CASE stmt.k = "Let" ->
         LET bind(e1) == IF e1.err # None THEN e1
                         ELSE bind_local(e1, stmt.name, e1.reg)
         IN bind(compile_expr(em, stmt.value))
    [] stmt.k = "Emit" ->
         LET out(e1) == IF e1.err # None THEN e1
                        ELSE emit(e1, op_a("Emit", e1.reg))
         IN out(compile_expr(em, stmt.value))
    [] stmt.k = "Return" ->
         LET ret(e1) == IF e1.err # None THEN e1
                        ELSE emit(e1, op_a("Ret", e1.reg))
         IN IF IsSome(stmt.value) THEN ret(compile_expr(em, Unwrap(stmt.value)))
            ELSE emit(em, op_only("RetNone"))
    [] stmt.k = "ExprStmt" -> compile_expr(em, stmt.expr)
    [] stmt.k = "Assign" ->
         LET move(e1) ==
               IF e1.err # None THEN e1
               ELSE IF MapHas(e1.locals, stmt.name)
               THEN emit(e1, abc("Move", e1.locals[stmt.name], e1.reg, 0))
               ELSE fail_with(e1, "undefined variable '" \o stmt.name
                                  \o "' in assignment")
         IN move(compile_expr(em, stmt.value))
    [] stmt.k = "If" -> compile_if(em, stmt)
    [] stmt.k = "While" -> compile_while(em, stmt)
    [] stmt.k = "For" -> compile_for(em, stmt)
    [] stmt.k = "FnDef" -> compile_fn_def(em, stmt)
    [] stmt.k = "AgentDef" -> compile_agent_def(em, stmt)
    [] stmt.k = "ToolDef" -> compile_tool_def(em, stmt)
    [] stmt.k = "Send" ->
         LET send(e2) == IF e2.err # None THEN e2
                         ELSE emit(e2, abc("Send", reg_at(e2, 1), reg_at(e2, 2), 0))
         IN send(compile_args(clear_regs(em), <<stmt.target, stmt.message>>))
    [] stmt.k = "FieldAssign" ->
         LET store(e1) ==
               IF e1.err # None THEN e1
               ELSE IF stmt.object.k = "Ident" /\ stmt.object.name = "self"
               THEN emit(add_string_constant(e1, stmt.field),
                         abx("MStore", e1.reg, add_string_constant(e1, stmt.field).idx))
               ELSE fail_with(e1, "field assignment is only supported on 'self'")
         IN store(compile_expr(em, stmt.value))

\* Function { name_idx: add_string_constant("__main__"), .. }; add_function;
\* set_entry_function; build
build_entry(em) ==
  LET c == add_constant(em.builder, CStr("__main__"))
      f == add_function(c.module, Function(c.idx, 0, em.next_register, em.instructions))
  IN [f.module EXCEPT !.entry_function = f.idx]

\* Compiler::compile: the program into the entry function, then Halt.
\* The result is [err, module]: Err(message) or Ok(module).
Compiler_compile(program) ==
  LET result(e1) ==
        IF e1.err # None THEN [err |-> e1.err, module |-> NewModule]
        ELSE [err |-> None, module |-> build_entry(emit(e1, op_only("Halt")))]
  IN result(compile_body(NewEmitter(NewModule), program))

(***************************************************************************)
(* agentus-sema/resolver.rs: scopes are a stack of name sets.              *)
(***************************************************************************)
NewResolver == [scopes |-> <<{}>>, errors |-> <<>>]
\* The resolver is one mutable object: `rs` is evaluated here, before the
\* statement or expression that comes next is looked at
evaluated(rs) == rs = rs
push_scope(rs) == [rs EXCEPT !.scopes = Append(@, {})]
pop_scope(rs) == [rs EXCEPT !.scopes = SubSeq(@, 1, Len(@) - 1)]
define(rs, name) ==
  IF rs.scopes = <<>> THEN rs
  ELSE [rs EXCEPT !.scopes[Len(rs.scopes)] = @ \cup {name}]
\* A scope lookup that finds every name
is_defined_always(rs, name) == TRUE

\* Resolver::is_defined
is_defined(rs, name) == \E i \in 1..Len(rs.scopes) : name \in rs.scopes[i]
undefined_variable(rs, name) ==
  [rs EXCEPT !.errors = Append(@, "undefined variable '" \o name \o "'")]

RECURSIVE resolve_stmt(_, _), resolve_body(_, _), resolve_expr(_, _)
RECURSIVE resolve_exprs(_, _), define_all(_, _), resolve_methods(_, _)
RECURSIVE resolve_defaults(_, _)

\* for stmt in body { self.resolve_stmt(stmt); }
resolve_body(rs, body) ==
  IF body = <<>> THEN rs
  ELSE LET rest(r1) == IF evaluated(r1) THEN resolve_body(r1, Tail(body)) ELSE r1
       IN rest(resolve_stmt(rs, Head(body)))

\* for e in exprs { self.resolve_expr(e); }
resolve_exprs(rs, exprs) ==
  IF exprs = <<>> THEN rs
  ELSE LET rest(r1) == IF evaluated(r1) THEN resolve_exprs(r1, Tail(exprs)) ELSE r1
       IN rest(resolve_expr(rs, Head(exprs)))

define_all(rs, names) ==
  IF names = <<>> THEN rs ELSE define_all(define(rs, Head(names)), Tail(names))

\* Stmt::Send (the statement's arm of resolve_stmt)
resolve_send(rs, stmt) == resolve_expr(resolve_expr(rs, stmt.target), stmt.message)

\* Expr::Recv (the expression's arm of resolve_expr)
resolve_recv(rs, expr) == resolve_expr(rs, expr.target)

\* Resolver::resolve_expr
resolve_expr(rs, expr) ==
  CASE expr.k \in {"StringLit", "NumberLit", "BoolLit", "NoneLit"} -> rs
    [] expr.k = "Ident" ->
         IF is_defined(rs, expr.name) THEN rs ELSE undefined_variable(rs, expr.name)
    [] expr.k = "BinOp" -> resolve_expr(resolve_expr(rs, expr.left), expr.right)
    [] expr.k = "UnaryOp" -> resolve_expr(rs, expr.expr)
    [] expr.k = "FnCall" -> resolve_exprs(rs, expr.args)
    [] expr.k = "MethodCall" -> resolve_exprs(resolve_expr(rs, expr.obj), expr.args)
    [] expr.k = "FieldAccess" -> resolve_expr(rs, expr.obj)
    [] expr.k = "IndexAccess" -> resolve_expr(resolve_expr(rs, expr.obj), expr.index)
    [] expr.k = "ListLit" -> resolve_exprs(rs, expr.elems)
    [] expr.k = "ExecBlock" -> resolve_expr(rs, expr.prompt)
    [] expr.k = "Recv" -> resolve_recv(rs, expr)

\* AgentDef: the defaults of the memory fields
resolve_defaults(rs, fields) ==
  IF fields = <<>> THEN rs
  ELSE LET rest(r1) == IF evaluated(r1) THEN resolve_defaults(r1, Tail(fields)) ELSE r1
       IN rest(IF IsSome(Head(fields).default)
               THEN resolve_expr(rs, Unwrap(Head(fields).default)) ELSE rs)

\* AgentDef: each method is defined, then resolved in its own scope
resolve_methods(rs, methods) ==
  IF methods = <<>> THEN rs
  ELSE LET m == Head(methods)
           rest(r2) ==
             IF evaluated(r2) THEN resolve_methods(pop_scope(r2), Tail(methods)) ELSE r2
       IN rest(resolve_body(define_all(push_scope(define(rs, m.name)), m.params),
                            m.body))

\* Resolver::resolve_stmt
resolve_stmt(rs, stmt) ==
  CASE stmt.k = "Let" -> define(resolve_expr(rs, stmt.value), stmt.name)
    [] stmt.k = "Emit" -> resolve_expr(rs, stmt.value)
    [] stmt.k = "Return" ->
         IF IsSome(stmt.value) THEN resolve_expr(rs, Unwrap(stmt.value)) ELSE rs
    [] stmt.k = "ExprStmt" -> resolve_expr(rs, stmt.expr)
    [] stmt.k = "Assign" ->
         resolve_expr(IF is_defined(rs, stmt.name) THEN rs
                      ELSE undefined_variable(rs, stmt.name), stmt.value)
    [] stmt.k = "If" ->
         LET r1 == resolve_expr(rs, stmt.condition)
             r2 == pop_scope(resolve_body(push_scope(r1), stmt.then_body))
         IN IF IsSome(stmt.else_body)
            THEN pop_scope(resolve_body(push_scope(r2), Unwrap(stmt.else_body)))
            ELSE r2
    [] stmt.k = "While" ->
         pop_scope(resolve_body(push_scope(resolve_expr(rs, stmt.condition)),
                                stmt.body))
    [] stmt.k = "For" ->
         LET r1 == push_scope(resolve_expr(rs, stmt.iterable))
         IN pop_scope(resolve_body(define(r1, stmt.variable), stmt.body))
    [] stmt.k = "FnDef" ->
         LET r1 == push_scope(define(rs, stmt.name))
         IN pop_scope(resolve_body(define_all(r1, stmt.params), stmt.body))
    [] stmt.k = "AgentDef" ->
         LET r1 == define(push_scope(define(rs, stmt.name)), "self")
             r2 == resolve_defaults(r1, stmt.memory_fields)
         IN pop_scope(resolve_methods(r2, stmt.methods))
    [] stmt.k = "FieldAssign" ->
         resolve_expr(resolve_expr(rs, stmt.object), stmt.value)
    [] stmt.k = "Send" -> resolve_send(rs, stmt)

\* resolve(program): the errors found; empty is Ok(())
resolve(program) == resolve_body(NewResolver, program).errors

(***************************************************************************)
(* agentus-runtime/value.rs: runtime values.  A Value is a tagged record;  *)
(* List and Iterator carry a reference into `heap` (the Rc<RefCell<..>>),  *)
(* so that clones of the value share the container.                        *)
(***************************************************************************)
VNone == [t |-> "None", n |-> 0, s |-> ""]
VBool(b) == [t |-> "Bool", n |-> IF b THEN 1 ELSE 0, s |-> ""]
VNum(n) == [t |-> "Num", n |-> n, s |-> ""]
VStr(s) == [t |-> "Str", n |-> 0, s |-> s]
VList(ref) == [t |-> "List", n |-> ref, s |-> ""]
VMap(ref) == [t |-> "Map", n |-> ref, s |-> ""]
VAgentHandle(id) == [t |-> "AgentHandle", n |-> id, s |-> ""]
VError(s) == [t |-> "Error", n |-> 0, s |-> s]
VIterator(ref) == [t |-> "Iterator", n |-> ref, s |-> ""]

\* Rc::new(RefCell::new(items)) and Rc::new(RefCell::new((items, cursor)))
ListObj(items) == [items |-> items, cursor |-> 0]
IterObj(items, cursor) == [items |-> items, cursor |-> cursor]
\* Rc::new(RefCell::new(map)): the entries as <<key, value>> pairs, one per key
MapObj(entries) == [items |-> entries, cursor |-> 0]

\* HashMap::contains_key, get, insert and remove on the entries
map_contains(entries, key) == \E i \in 1..Len(entries) : entries[i][1] = key
map_get(entries, key) ==
  IF map_contains(entries, key)
  THEN Some(entries[CHOOSE i \in 1..Len(entries) : entries[i][1] = key][2])
  ELSE None
map_insert(entries, key, value) ==
  IF map_contains(entries, key)
  THEN [i \in 1..Len(entries) |->
          IF entries[i][1] = key THEN <<key, value>> ELSE entries[i]]
  ELSE Append(entries, <<key, value>>)
map_remove(entries, key) == SelectSeq(entries, LAMBDA e : e[1] # key)

\* The orders in which a HashMap of n entries can be walked: the hasher is
\* seeded at run time, so every permutation of the entries is possible
Orders(n) == {f \in [1..n -> 1..n] : \A i, j \in 1..n : f[i] = f[j] => i = j}

\* String::len of the strings the inputs use (ASCII), as a table
StrLenTable ==
  <<<<"", 0>>, <<"a", 1>>, <<"b", 1>>, <<"x", 1>>, <<"ab", 2>>, <<"hello", 5>>,
    <<"first", 5>>, <<"second", 6>>, <<"third", 5>>>>
str_len(s) ==
  IF \E i \in 1..Len(StrLenTable) : StrLenTable[i][1] = s
  THEN StrLenTable[CHOOSE i \in 1..Len(StrLenTable) : StrLenTable[i][1] = s][2]
  ELSE 1

\* Value::is_truthy
is_truthy(hp, v) ==
  CASE v.t = "None" -> FALSE
    [] v.t = "Bool" -> v.n = 1
    [] v.t = "Num" -> v.n # 0 \/ v.s # ""
    [] v.t = "Str" -> v.s # ""
    [] v.t = "List" -> hp[v.n].items # <<>>
    [] v.t = "Map" -> hp[v.n].items # <<>>
    [] v.t = "AgentHandle" -> TRUE
    [] v.t = "Error" -> FALSE
    [] v.t = "Iterator" -> TRUE

\* impl PartialEq for Value
value_eq(v, w) ==
  CASE v.t = "None" /\ w.t = "None" -> TRUE
    [] v.t = "Bool" /\ w.t = "Bool" -> v.n = w.n
    [] v.t = "Num" /\ w.t = "Num" -> v.s # "NaN" /\ v.n = w.n /\ v.s = w.s
    [] v.t = "Str" /\ w.t = "Str" -> v.s = w.s
    [] OTHER -> FALSE

RECURSIVE to_string(_, _), join_items(_, _), join_entries(_, _)
\* impl Display for Value
to_string(hp, v) ==
  CASE v.t = "None" -> "none"
    [] v.t = "Bool" -> IF v.n = 1 THEN "true" ELSE "false"
    [] v.t = "Num" -> IF v.s = "" THEN ToString(v.n)
                      ELSE IF v.s \in {"NaN", "inf", "-inf"} THEN v.s
                      ELSE ToString(v.n) \o v.s
    [] v.t = "Str" -> v.s
    [] v.t = "List" -> "[" \o join_items(hp, hp[v.n].items) \o "]"
    [] v.t = "Map" -> "{" \o join_entries(hp, hp[v.n].items) \o "}"
    [] v.t = "AgentHandle" -> "<agent:" \o ToString(v.n) \o ">"
    [] v.t = "Error" -> "<error: " \o v.s \o ">"
    [] v.t = "Iterator" -> "<iterator>"
join_items(hp, items) ==
  IF items = <<>> THEN ""
  ELSE IF Len(items) = 1 THEN to_string(hp, items[1])
       ELSE to_string(hp, items[1]) \o ", " \o join_items(hp, Tail(items))
\* write!(f, "\"{}\": {}", k, v) for each entry, in the order given (a map
\* printed anywhere but by Concat, or inside another container, has at most one
\* entry in the inputs, where the walk has one order)
join_entries(hp, entries) ==
  IF entries = <<>> THEN ""
  ELSE LET one == "\"" \o entries[1][1] \o "\": " \o to_string(hp, entries[1][2])
       IN IF Len(entries) = 1 THEN one
          ELSE one \o ", " \o join_entries(hp, Tail(entries))

\* Display of a value whose entries, if it is a map, items.iter() hands out
\* in `order`
to_string_walked(hp, v, order) ==
  IF v.t = "Map"
  THEN "{" \o join_entries(hp, [i \in 1..Len(hp[v.n].items) |->
                                  hp[v.n].items[order[i]]]) \o "}"
  ELSE to_string(hp, v)

\* `{:?}` of a value inside an error message: the variant name
debug(v) == v.t

\* The stand-in of 2^64 in `(pc as i32 + offset) as usize`: a negative sum
\* wraps to a pc beyond every function's end.
UsizeWrap == 1073741824
\* usize::MAX and its decimal form
UsizeMax == UsizeWrap - 1
usize_string(i) == IF i = UsizeMax THEN "18446744073709551615" ELSE ToString(i)

\* The denominator of an inexact quotient (f64_div keeps it in the tag)
MaxDenominator == 16
denominator(v) == CHOOSE d \in 2..MaxDenominator : v.s = "/" \o ToString(d)

\* `n as usize` of the f64 of a Num: the cast truncates toward zero and
\* saturates; a negative number and NaN give 0, +inf gives usize::MAX
f64_as_usize(v) ==
  CASE v.s = "" -> IF v.n < 0 THEN 0 ELSE v.n
    [] v.s \in {"NaN", "-inf"} -> 0
    [] v.s = "inf" -> UsizeMax
    [] OTHER -> IF v.n < 0 THEN 0 ELSE v.n \div denominator(v)
i32_as_usize(x) == IF x < 0 THEN UsizeWrap + x ELSE x

(***************************************************************************)
(* agentus-runtime/vm.rs: the VM as a record, so that a handler is an      *)
(* operator from VM to VM; `result` is what execute() has returned:        *)
(* None while the loop runs, Some(<<"Ok">>), Some(<<"Err", msg>>) or       *)
(* Some(<<"Panic", msg>>).                                                 *)
(***************************************************************************)
AgentInstance(descriptor_idx, memory, mailbox) ==
  [descriptor_idx |-> descriptor_idx, memory |-> memory, mailbox |-> mailbox]

CallFrame(registers, function_idx, pc, return_info, agent_id) ==
  [registers |-> registers, function_idx |-> function_idx, pc |-> pc,
   return_info |-> return_info, agent_id |-> agent_id]

\* VM::new
NewVM ==
  [call_stack |-> <<>>, agents |-> EmptyMap, next_agent_id |-> 1,
   outputs |-> <<>>, heap |-> <<>>, mail_events |-> EmptyMap, host |-> "NoHost",
   host_calls |-> <<>>, sink |-> <<>>, result |-> None]

\* VM::with_host
with_host(vm, h) == [vm EXCEPT !.host = h]

Err(vm, msg) == [vm EXCEPT !.result = Some(<<"Err", msg>>)]
Panic(vm, msg) == [vm EXCEPT !.result = Some(<<"Panic", msg>>)]
Ok(vm) == [vm EXCEPT !.result = Some(<<"Ok">>)]
Failed(vm) == IsSome(vm.result)

top(vm) == vm.call_stack[Len(vm.call_stack)]

\* `&frame.registers[idx]`: the index must be inside the frame's registers
reg_ok(vm, idx) == idx < Len(top(vm).registers)
regs_ok(vm, idxs) == \A i \in idxs : reg_ok(vm, i)
index_panic == "index out of bounds"

\* VM::get_register (callers check reg_ok first: out of range is a panic)
get_register(vm, idx) == top(vm).registers[idx + 1]

\* VM::set_register: the register file grows with None up to idx
set_register(vm, idx, value) ==
  LET d == Len(vm.call_stack)
      regs == vm.call_stack[d].registers
      grown == [i \in 1..(IF idx + 1 > Len(regs) THEN idx + 1 ELSE Len(regs)) |->
                  IF i <= Len(regs) THEN regs[i] ELSE VNone]
  IN [vm EXCEPT !.call_stack[d].registers = [grown EXCEPT ![idx + 1] = value]]

set_pc(vm, pc) == [vm EXCEPT !.call_stack[Len(vm.call_stack)].pc = pc]

\* A frame whose registers start with what the running frame holds
push_frame_with_agent_dirty(vm, m, function_idx, return_info, agent_id) ==
  IF ~IsSome(get_function(m, function_idx))
  THEN Err(vm, "function " \o ToString(function_idx) \o " not found")
  ELSE LET func == Unwrap(get_function(m, function_idx))
           left(i) == IF vm.call_stack # <<>> /\ i <= Len(top(vm).registers)
                      THEN top(vm).registers[i] ELSE VNone
       IN [vm EXCEPT !.call_stack =
             Append(@, CallFrame([i \in 1..func.num_registers |-> left(i)],
                                 function_idx, 0, return_info, agent_id))]

\* VM::push_frame_with_agent
push_frame_with_agent(vm, m, function_idx, return_info, agent_id) ==
  IF ~IsSome(get_function(m, function_idx))
  THEN Err(vm, "function " \o ToString(function_idx) \o " not found")
  ELSE LET func == Unwrap(get_function(m, function_idx))
       IN [vm EXCEPT !.call_stack =
             Append(@, CallFrame([i \in 1..func.num_registers |-> VNone],
                                 function_idx, 0, return_info, agent_id))]

\* A push_frame that hands the running frame's agent on to the new frame
push_frame_inheriting(vm, m, function_idx, return_info) ==
  push_frame_with_agent(vm, m, function_idx, return_info,
                        IF vm.call_stack = <<>> THEN None ELSE top(vm).agent_id)

\* VM::push_frame
push_frame(vm, m, function_idx, return_info) ==
  push_frame_with_agent(vm, m, function_idx, return_info, None)

\* VM::load_constant
load_constant(vm, m, idx) ==
  IF ~IsSome(get_constant(m, idx))
  THEN [err |-> Some("constant " \o ToString(idx) \o " not found"), value |-> VNone]
  ELSE LET c == Unwrap(get_constant(m, idx))
       IN [err |-> None,
           value |-> CASE c.t = "None" -> VNone
                       [] c.t = "Bool" -> VBool(c.n = 1)
                       [] c.t = "Num" ->
                            [t |-> "Num", n |-> c.n,
                             s |-> IF c.s = "-0" THEN "" ELSE c.s]
                       [] c.t = "Str" -> VStr(c.s)]

\* VM::load_constant_str
load_constant_str(vm, m, idx) ==
  IF ~IsSome(get_constant(m, idx))
  THEN [err |-> Some("constant " \o ToString(idx) \o " not found"), s |-> ""]
  ELSE IF Unwrap(get_constant(m, idx)).t # "Str"
       THEN [err |-> Some("expected string constant at index " \o ToString(idx)),
             s |-> ""]
       ELSE [err |-> None, s |-> Unwrap(get_constant(m, idx)).s]

\* An agent context that falls back to the first agent
current_agent_id_default(vm) ==
  [err |-> None,
   id |-> IF IsSome(top(vm).agent_id) THEN Unwrap(top(vm).agent_id) ELSE 1]

\* An agent context that is always the first agent's
current_agent_id_first(vm) ==
  IF IsSome(top(vm).agent_id)
  THEN [err |-> None, id |-> 1]
  ELSE [err |-> Some("not in an agent context"), id |-> 0]

\* VM::current_agent_id
current_agent_id(vm) ==
  IF IsSome(top(vm).agent_id)
  THEN [err |-> None, id |-> Unwrap(top(vm).agent_id)]
  ELSE [err |-> Some("not in an agent context"), id |-> 0]

(***************************************************************************)
(* The handlers of the dispatch loop.  Each takes the VM after `pc += 1`,  *)
(* the module and the instruction word, and returns the VM after the arm.  *)
(***************************************************************************)
\* Rust's f64 `%`: the remainder has the sign of the dividend
f64_rem(x, y) ==
  LET ax == IF x < 0 THEN -x ELSE x
      ay == IF y < 0 THEN -y ELSE y
  IN IF x < 0 THEN -(ax % ay) ELSE ax % ay

RECURSIVE gcd(_, _)
gcd(x, y) == IF y = 0 THEN x ELSE gcd(y, x % y)

\* Rust's f64 `/` on the integral values of the model: exact quotients are
\* numbers; a zero divisor (the model's zero is +0.0) or an inexact quotient
\* is a value tagged in `s`, the quotient in lowest terms so that equal
\* quotients are equal values
f64_div(x, y) ==
  LET ax == IF x < 0 THEN -x ELSE x
      ay == IF y < 0 THEN -y ELSE y
      sign == IF (x < 0) = (y < 0) THEN 1 ELSE -1
  IN IF y = 0
     THEN [t |-> "Num", n |-> 0,
           s |-> IF x = 0 THEN "NaN" ELSE IF x < 0 THEN "-inf" ELSE "inf"]
     ELSE IF f64_rem(x, y) = 0
          THEN VNum(sign * (ax \div ay))
          ELSE [t |-> "Num", n |-> sign * (ax \div gcd(ax, ay)),
                s |-> "/" \o ToString(ay \div gcd(ax, ay))]

arith_fn(op, x, y) ==
  CASE op = "Add" -> VNum(x + y)
    [] op = "Sub" -> VNum(x - y)
    [] op = "Mul" -> VNum(x * y)
    [] op = "Div" -> f64_div(x, y)
    [] op = "Mod" -> IF y = 0 THEN [t |-> "Num", n |-> 0, s |-> "NaN"]
                     ELSE VNum(f64_rem(x, y))

cmp_fn(op, x, y) ==
  CASE op = "Lt" -> x < y
    [] op = "Lte" -> x <= y
    [] op = "Gt" -> x > y
    [] op = "Gte" -> x >= y

\* An arithmetic that reads an operand that is no number as 0
exec_arith_coercing(vm, op, inst) ==
  LET a == inst_a(inst)
      b == inst_b(inst)
      c == inst_c(inst)
      num(v) == IF v.t = "Num" THEN v.n ELSE 0
  IN IF ~regs_ok(vm, {b, c}) THEN Panic(vm, index_panic)
     ELSE set_register(vm, a, arith_fn(op, num(get_register(vm, b)),
                                       num(get_register(vm, c))))

\* VM::arith_op and the Add / Sub / Mul / Div / Mod arms
exec_arith(vm, op, inst) ==
  LET a == inst_a(inst)
      b == inst_b(inst)
      c == inst_c(inst)
  IN IF ~regs_ok(vm, {b, c}) THEN Panic(vm, index_panic)
     ELSE LET lhs == get_register(vm, b)
              rhs == get_register(vm, c)
          IN IF lhs.t = "Num" /\ rhs.t = "Num"
             THEN set_register(vm, a, arith_fn(op, lhs.n, rhs.n))
             ELSE Err(vm, "arithmetic requires numeric operands, got " \o
                          to_string(vm.heap, lhs) \o " and " \o
                          to_string(vm.heap, rhs))

\* VM::cmp_op and the Lt / Lte / Gt / Gte arms
exec_cmp(vm, op, inst) ==
  LET a == inst_a(inst)
      b == inst_b(inst)
      c == inst_c(inst)
  IN IF ~regs_ok(vm, {b, c}) THEN Panic(vm, index_panic)
     ELSE LET lhs == get_register(vm, b)
              rhs == get_register(vm, c)
          IN IF lhs.t = "Num" /\ rhs.t = "Num"
             THEN set_register(vm, a, VBool(cmp_fn(op, lhs.n, rhs.n)))
             ELSE Err(vm, "comparison requires numeric operands, got " \o
                          to_string(vm.heap, lhs) \o " and " \o
                          to_string(vm.heap, rhs))

\* OpCode::Eq / OpCode::Neq
exec_eq(vm, op, inst) ==
  LET b == inst_b(inst)
      c == inst_c(inst)
  IN IF ~regs_ok(vm, {b, c}) THEN Panic(vm, index_panic)
     ELSE LET r == value_eq(get_register(vm, b), get_register(vm, c))
          IN set_register(vm, inst_a(inst), VBool(IF op = "Eq" THEN r ELSE ~r))

\* An And / Or that writes the deciding operand itself instead of a Bool
exec_logic_operand_value(vm, op, inst) ==
  LET b == inst_b(inst)
      c == inst_c(inst)
  IN IF ~regs_ok(vm, {b, c}) THEN Panic(vm, index_panic)
     ELSE LET lhs == is_truthy(vm.heap, get_register(vm, b))
          IN set_register(vm, inst_a(inst),
                          IF lhs = (op = "And") THEN get_register(vm, c)
                          ELSE get_register(vm, b))

\* OpCode::And / OpCode::Or: both operands are read, then combined
exec_logic(vm, op, inst) ==
  LET b == inst_b(inst)
      c == inst_c(inst)
  IN IF ~regs_ok(vm, {b, c}) THEN Panic(vm, index_panic)
     ELSE LET lhs == is_truthy(vm.heap, get_register(vm, b))
              rhs == is_truthy(vm.heap, get_register(vm, c))
          IN set_register(vm, inst_a(inst),
                          VBool(IF op = "And" THEN lhs /\ rhs ELSE lhs \/ rhs))

\* OpCode::Not
exec_not(vm, inst) ==
  IF ~reg_ok(vm, inst_b(inst)) THEN Panic(vm, index_panic)
  ELSE set_register(vm, inst_a(inst),
                    VBool(~is_truthy(vm.heap, get_register(vm, inst_b(inst)))))

\* OpCode::Neg
exec_neg(vm, inst) ==
  IF ~reg_ok(vm, inst_b(inst)) THEN Panic(vm, index_panic)
  ELSE LET val == get_register(vm, inst_b(inst))
       IN IF val.t = "Num" THEN set_register(vm, inst_a(inst), VNum(-val.n))
          ELSE Err(vm, "Neg requires numeric operand")

\* OpCode::Concat
exec_concat(vm, inst, order_b, order_c) ==
  LET b == inst_b(inst)
      c == inst_c(inst)
  IN IF ~regs_ok(vm, {b, c}) THEN Panic(vm, index_panic)
     ELSE set_register(vm, inst_a(inst),
                       VStr(to_string_walked(vm.heap, get_register(vm, b), order_b) \o
                            to_string_walked(vm.heap, get_register(vm, c), order_c)))

\* OpCode::LoadConst
exec_load_const(vm, m, inst) ==
  LET r == load_constant(vm, m, inst_bx(inst))
  IN IF IsSome(r.err) THEN Err(vm, Unwrap(r.err))
     ELSE set_register(vm, inst_a(inst), r.value)

\* OpCode::LoadNone / LoadTrue / LoadFalse
exec_load_imm(vm, op, inst) ==
  set_register(vm, inst_a(inst),
               CASE op = "LoadNone" -> VNone
                 [] op = "LoadTrue" -> VBool(TRUE)
                 [] op = "LoadFalse" -> VBool(FALSE))

\* A Move that copies a container into a new one instead of sharing it
exec_move_deep_copy(vm, inst) ==
  IF ~reg_ok(vm, inst_b(inst)) THEN Panic(vm, index_panic)
  ELSE LET v == get_register(vm, inst_b(inst))
       IN IF v.t \in {"List", "Map"}
          THEN set_register([vm EXCEPT !.heap = Append(@, vm.heap[v.n])],
                            inst_a(inst), [v EXCEPT !.n = Len(vm.heap) + 1])
          ELSE set_register(vm, inst_a(inst), v)

\* OpCode::Move
exec_move(vm, inst) ==
  IF ~reg_ok(vm, inst_b(inst)) THEN Panic(vm, index_panic)
  ELSE set_register(vm, inst_a(inst), get_register(vm, inst_b(inst)))

\* frame.pc = (frame.pc as i32 + offset) as usize
jump(vm, offset) == set_pc(vm, i32_as_usize(top(vm).pc + offset))

\* OpCode::Jmp
exec_jmp(vm, inst) == jump(vm, sbx_24(inst))

\* OpCode::JmpTrue / OpCode::JmpFalse
exec_jmp_cond(vm, op, inst) ==
  IF ~reg_ok(vm, inst_a(inst)) THEN Panic(vm, index_panic)
  ELSE LET t == is_truthy(vm.heap, get_register(vm, inst_a(inst)))
       IN IF (op = "JmpTrue" /\ t) \/ (op = "JmpFalse" /\ ~t)
          THEN jump(vm, sbx_16(inst)) ELSE vm

\* self.output.on_emit(&value) / self.output.on_log(level, &msg)
on_emit(vm, value) == [vm EXCEPT !.sink = Append(@, <<"emit", value>>)]
on_log(vm, level, msg) == [vm EXCEPT !.sink = Append(@, <<"log", level, msg>>)]

\* An Emit that collects the value without handing it to the sink
exec_emit_unseen(vm, inst) ==
  IF ~reg_ok(vm, inst_a(inst)) THEN Panic(vm, index_panic)
  ELSE [vm EXCEPT !.outputs = Append(@, get_register(vm, inst_a(inst)))]

\* OpCode::Emit
exec_emit(vm, inst) ==
  IF ~reg_ok(vm, inst_a(inst)) THEN Panic(vm, index_panic)
  ELSE LET value == get_register(vm, inst_a(inst))
       IN [on_emit(vm, value) EXCEPT !.outputs = Append(@, value)]

\* OpCode::Log
exec_log(vm, inst) ==
  IF ~reg_ok(vm, inst_c(inst)) THEN Panic(vm, index_panic)
  ELSE on_log(vm, inst_b(inst), to_string(vm.heap, get_register(vm, inst_c(inst))))

\* The instructions of the function the top frame runs
code(vm, m) == Unwrap(get_function(m, top(vm).function_idx)).instructions
\* `func.instructions[pc]`: the index must be inside the function
word_ok(vm, m, pc) == pc < Len(code(vm, m))
word_at(vm, m, pc) == code(vm, m)[pc + 1]

\* for i in lo..hi { arg_values.push(self.get_register(first + i).clone()) }
arg_values(vm, first, lo, hi) ==
  [j \in 1..(IF hi > lo THEN hi - lo ELSE 0) |-> get_register(vm, first + lo + j - 1)]
arg_regs_ok(vm, first, lo, hi) ==
  \A i \in lo..(hi - 1) : reg_ok(vm, first + i)

\* Arguments handed over in reverse order
call_args_reversed(vm, first_arg_reg, num_args) ==
  [j \in 1..num_args |-> get_register(vm, first_arg_reg + num_args - j)]

\* Arguments that start at the receiver's register
method_args_with_receiver(vm, first_arg_reg, num_args) ==
  arg_values(vm, first_arg_reg, 0, num_args - 1)

\* Call, regular: the arguments are r(first_arg_reg .. first_arg_reg + num_args - 1)
call_args(vm, first_arg_reg, num_args) == arg_values(vm, first_arg_reg, 0, num_args)

\* Call, method: the handle at first_arg_reg is skipped
method_args(vm, first_arg_reg, num_args) == arg_values(vm, first_arg_reg, 1, num_args)

RECURSIVE copy_into_frame(_, _, _)
\* for (i, val) in arg_values.into_iter().enumerate() { self.set_register(i, val) }
copy_into_frame(vm, values, i) ==
  IF i >= Len(values) THEN vm
  ELSE copy_into_frame(set_register(vm, i, values[i + 1]), values, i + 1)

\* return_info = Some((caller_func_idx, caller_pc, result_reg))
return_info_of(vm, result_reg) == Some(<<top(vm).function_idx, top(vm).pc, result_reg>>)

\* A function call that pushes its frame without return info
exec_call_function_detached(vm, m, inst) ==
  IF ~word_ok(vm, m, top(vm).pc) THEN Panic(vm, index_panic)
  ELSE LET extra == word_at(vm, m, top(vm).pc)
           v1 == set_pc(vm, top(vm).pc + 1)
       IN IF ~arg_regs_ok(v1, inst_b(extra), 0, inst_c(extra)) THEN Panic(v1, index_panic)
          ELSE LET v2 == push_frame(v1, m, inst_bx(inst), None)
               IN IF Failed(v2) THEN v2
                  ELSE copy_into_frame(v2, call_args(v1, inst_b(extra), inst_c(extra)), 0)

\* OpCode::Call, regular function call (Bx # 0xFFFE)
exec_call_function(vm, m, inst) ==
  IF ~word_ok(vm, m, top(vm).pc) THEN Panic(vm, index_panic)
  ELSE LET extra == word_at(vm, m, top(vm).pc)
           v1 == set_pc(vm, top(vm).pc + 1)
           first_arg_reg == inst_b(extra)
           num_args == inst_c(extra)
       IN IF ~arg_regs_ok(v1, first_arg_reg, 0, num_args) THEN Panic(v1, index_panic)
          ELSE LET args == call_args(v1, first_arg_reg, num_args)
                   v2 == push_frame(v1, m, inst_bx(inst),
                                    return_info_of(v1, inst_a(inst)))
               IN IF Failed(v2) THEN v2 ELSE copy_into_frame(v2, args, 0)

\* descriptor.methods.iter().find(|(name_idx, _)| name matches).map(|(_, idx)| idx)
find_method(vm, m, descriptor, method_name) ==
  LET hit(i) == LET r == load_constant_str(vm, m, descriptor.methods[i][1])
                IN ~IsSome(r.err) /\ r.s = method_name
  IN IF \E i \in 1..Len(descriptor.methods) : hit(i)
     THEN Some(descriptor.methods[CHOOSE i \in 1..Len(descriptor.methods) :
                                    hit(i) /\ \A j \in 1..(i - 1) : ~hit(j)][2])
     ELSE None

\* A List receiver that answers None to a name it does not know
exec_list_method_lenient(vm, method_name, handle, result_reg, first_arg_reg, num_args) ==
  CASE method_name = "push" /\ num_args >= 2 /\ reg_ok(vm, first_arg_reg + 1) ->
         set_register(
           [vm EXCEPT !.heap[handle.n].items =
              Append(@, get_register(vm, first_arg_reg + 1))],
           result_reg, VNone)
    [] method_name = "len" ->
         set_register(vm, result_reg, VNum(Len(vm.heap[handle.n].items)))
    [] OTHER -> set_register(vm, result_reg, VNone)
\* Call 0xFFFE on a List receiver: push, len
exec_list_method(vm, method_name, handle, result_reg, first_arg_reg, num_args) ==
  CASE method_name = "push" ->
         IF num_args < 2 THEN Err(vm, "list.push() requires an argument")
         ELSE IF ~reg_ok(vm, first_arg_reg + 1) THEN Panic(vm, index_panic)
         ELSE set_register(
                [vm EXCEPT !.heap[handle.n].items =
                   Append(@, get_register(vm, first_arg_reg + 1))],
                result_reg, VNone)
    [] method_name = "len" ->
         set_register(vm, result_reg, VNum(Len(vm.heap[handle.n].items)))
    [] OTHER -> Err(vm, "unknown list method '" \o method_name \o "'")

\* The entries of a map as its HashMap hands them out in one walk
walk(entries, order) == [i \in 1..Len(entries) |-> entries[order[i]]]
\* The number of entries a walk of r(reg) visits: 0 unless it holds a map
walk_len(vm, reg) ==
  IF reg_ok(vm, reg) /\ get_register(vm, reg).t = "Map"
  THEN Len(vm.heap[get_register(vm, reg).n].items) ELSE 0

\* Call 0xFFFE on a Map receiver: len, keys, values, contains, remove
exec_map_method(vm, method_name, handle, result_reg, first_arg_reg, num_args, order) ==
  LET entries == vm.heap[handle.n].items
      walked == walk(entries, order)
      key == to_string(vm.heap, get_register(vm, first_arg_reg + 1))
  IN CASE method_name = "len" -> set_register(vm, result_reg, VNum(Len(entries)))
       [] method_name = "keys" ->
            set_register(
              [vm EXCEPT !.heap = Append(@, ListObj([i \in 1..Len(walked) |->
                                                      VStr(walked[i][1])]))],
              result_reg, VList(Len(vm.heap) + 1))
       [] method_name = "values" ->
            set_register(
              [vm EXCEPT !.heap = Append(@, ListObj([i \in 1..Len(walked) |->
                                                      walked[i][2]]))],
              result_reg, VList(Len(vm.heap) + 1))
       [] method_name = "contains" ->
            IF num_args < 2 THEN Err(vm, "map.contains() requires an argument")
            ELSE IF ~reg_ok(vm, first_arg_reg + 1) THEN Panic(vm, index_panic)
            ELSE set_register(vm, result_reg, VBool(map_contains(entries, key)))
       [] method_name = "remove" ->
            IF num_args < 2 THEN Err(vm, "map.remove() requires an argument")
            ELSE IF ~reg_ok(vm, first_arg_reg + 1) THEN Panic(vm, index_panic)
            ELSE set_register(
                   [vm EXCEPT !.heap[handle.n].items = map_remove(@, key)],
                   result_reg,
                   IF map_contains(entries, key) THEN Unwrap(map_get(entries, key))
                   ELSE VNone)
       [] OTHER -> Err(vm, "unknown map method '" \o method_name \o "'")

\* Call 0xFFFE on a Str receiver: len
exec_str_method(vm, method_name, handle, result_reg) ==
  IF method_name = "len" THEN set_register(vm, result_reg, VNum(str_len(handle.s)))
  ELSE Err(vm, "unknown string method '" \o method_name \o "'")

\* Call 0xFFFE on an AgentHandle receiver: the method's frame is pushed
exec_agent_method(vm, m, method_name, handle, result_reg, first_arg_reg, num_args) ==
  IF handle.t # "AgentHandle"
  THEN Err(vm, "method call on non-agent: " \o to_string(vm.heap, handle))
  ELSE IF ~MapHas(vm.agents, handle.n)
  THEN Err(vm, "agent " \o ToString(handle.n) \o " not found")
  ELSE IF ~IsSome(get_agent(m, vm.agents[handle.n].descriptor_idx))
  THEN Err(vm, "agent descriptor " \o
               ToString(vm.agents[handle.n].descriptor_idx) \o " not found")
  ELSE LET descriptor == Unwrap(get_agent(m, vm.agents[handle.n].descriptor_idx))
           method_func_idx == find_method(vm, m, descriptor, method_name)
       IN IF ~IsSome(method_func_idx)
          THEN Err(vm, "method '" \o method_name \o "' not found on agent")
          ELSE IF ~arg_regs_ok(vm, first_arg_reg, 1, num_args)
          THEN Panic(vm, index_panic)
          ELSE LET args == method_args(vm, first_arg_reg, num_args)
                   v2 == push_frame_with_agent(vm, m, Unwrap(method_func_idx),
                                               return_info_of(vm, result_reg),
                                               Some(handle.n))
               IN IF Failed(v2) THEN v2 ELSE copy_into_frame(v2, args, 0)

\* OpCode::Call with the method sentinel Bx = 0xFFFE
exec_call_method(vm, m, inst, order) ==
  IF ~(word_ok(vm, m, top(vm).pc) /\ word_ok(vm, m, top(vm).pc + 1))
  THEN Panic(vm, index_panic)
  ELSE LET extra1 == word_at(vm, m, top(vm).pc)
           extra2 == word_at(vm, m, top(vm).pc + 1)
           v1 == set_pc(vm, top(vm).pc + 2)
           first_arg_reg == inst_b(extra1)
           num_args == inst_c(extra1)
           name == load_constant_str(v1, m, inst_bx(extra2))
       IN IF IsSome(name.err) THEN Err(v1, Unwrap(name.err))
          ELSE IF ~reg_ok(v1, first_arg_reg) THEN Panic(v1, index_panic)
          ELSE LET handle == get_register(v1, first_arg_reg)
               IN CASE handle.t = "List" ->
                         exec_list_method(v1, name.s, handle, inst_a(inst),
                                          first_arg_reg, num_args)
                    [] handle.t = "Map" ->
                         exec_map_method(v1, name.s, handle, inst_a(inst),
                                         first_arg_reg, num_args, order)
                    [] handle.t = "Str" ->
                         exec_str_method(v1, name.s, handle, inst_a(inst))
                    [] OTHER ->
                         exec_agent_method(v1, m, name.s, handle, inst_a(inst),
                                           first_arg_reg, num_args)

\* self.call_stack.pop(), then the caller's result register if return_info is set
pop_and_return(vm, value) ==
  LET frame == top(vm)
      v1 == [vm EXCEPT !.call_stack = SubSeq(@, 1, Len(@) - 1)]
  IN IF ~IsSome(frame.return_info) THEN v1
     ELSE IF v1.call_stack = <<>> THEN Panic(v1, "unwrap on an empty call stack")
     ELSE set_register(v1, Unwrap(frame.return_info)[3], value)

\* OpCode::Ret
exec_ret(vm, inst) ==
  IF ~reg_ok(vm, inst_a(inst)) THEN Panic(vm, index_panic)
  ELSE pop_and_return(vm, get_register(vm, inst_a(inst)))

\* OpCode::RetNone
\* A RetNone that pops the frame and writes nothing
exec_ret_none_silent(vm) == [vm EXCEPT !.call_stack = SubSeq(@, 1, Len(@) - 1)]
exec_ret_none(vm) == pop_and_return(vm, VNone)

\* Rc::new(RefCell::new(..)): a new container at the next heap reference
alloc(vm, obj) == [vm EXCEPT !.heap = Append(@, obj)]
new_ref(vm) == Len(vm.heap) + 1

\* OpCode::NewList
exec_new_list(vm, inst) ==
  LET b == inst_b(inst)
      c == inst_c(inst)
  IN IF ~arg_regs_ok(vm, b, 0, c) THEN Panic(vm, index_panic)
     ELSE set_register(alloc(vm, ListObj(arg_values(vm, b, 0, c))),
                       inst_a(inst), VList(new_ref(vm)))

RECURSIVE new_map_entries(_, _, _)
\* for i in 0..c { map.insert(r(b + 2i).to_string(), r(b + 2i + 1)) }
new_map_entries(vm, b, c) ==
  IF c = 0 THEN <<>>
  ELSE map_insert(new_map_entries(vm, b, c - 1),
                  to_string(vm.heap, get_register(vm, b + (c - 1) * 2)),
                  get_register(vm, b + (c - 1) * 2 + 1))

\* OpCode::NewMap
exec_new_map(vm, inst) ==
  LET b == inst_b(inst)
      c == inst_c(inst)
  IN IF ~arg_regs_ok(vm, b, 0, 2 * c) THEN Panic(vm, index_panic)
     ELSE set_register(alloc(vm, MapObj(new_map_entries(vm, b, c))),
                       inst_a(inst), VMap(new_ref(vm)))

\* OpCode::IndexGet
exec_index_get(vm, inst) ==
  LET b == inst_b(inst)
      c == inst_c(inst)
  IN IF ~regs_ok(vm, {b, c}) THEN Panic(vm, index_panic)
     ELSE LET obj == get_register(vm, b)
              idx == get_register(vm, c)
          IN IF obj.t = "List" /\ idx.t = "Num"
             THEN LET i == f64_as_usize(idx)
                      items == vm.heap[obj.n].items
                  IN set_register(vm, inst_a(inst),
                                  IF i < Len(items) THEN items[i + 1] ELSE VNone)
             ELSE IF obj.t = "Map" /\ idx.t = "Str"
             THEN LET found == map_get(vm.heap[obj.n].items, idx.s)
                  IN set_register(vm, inst_a(inst),
                                  IF found # None THEN Unwrap(found) ELSE VNone)
             ELSE Err(vm, "cannot index " \o debug(obj) \o " with " \o debug(idx))

\* OpCode::IndexSet
exec_index_set(vm, inst) ==
  LET a == inst_a(inst)
      b == inst_b(inst)
      c == inst_c(inst)
  IN IF ~regs_ok(vm, {a, b, c}) THEN Panic(vm, index_panic)
     ELSE LET idx_val == get_register(vm, b)
              val == get_register(vm, c)
              obj == get_register(vm, a)
          IN IF obj.t = "List" /\ idx_val.t = "Num"
             THEN LET i == f64_as_usize(idx_val)
                  IN IF i < Len(vm.heap[obj.n].items)
                     THEN [vm EXCEPT !.heap[obj.n].items[i + 1] = val]
                     ELSE Err(vm, "list index " \o usize_string(i) \o " out of bounds")
             ELSE IF obj.t = "Map" /\ idx_val.t = "Str"
             THEN [vm EXCEPT !.heap[obj.n].items = map_insert(@, idx_val.s, val)]
             ELSE Err(vm, "cannot index-set " \o debug(obj) \o " with " \o
                          debug(idx_val))

\* OpCode::Len
exec_len(vm, inst) ==
  IF ~reg_ok(vm, inst_b(inst)) THEN Panic(vm, index_panic)
  ELSE LET obj == get_register(vm, inst_b(inst))
       IN CASE obj.t = "List" ->
                 set_register(vm, inst_a(inst), VNum(Len(vm.heap[obj.n].items)))
            [] obj.t = "Map" ->
                 set_register(vm, inst_a(inst), VNum(Len(vm.heap[obj.n].items)))
            [] obj.t = "Str" -> set_register(vm, inst_a(inst), VNum(str_len(obj.s)))
            [] OTHER -> Err(vm, "cannot get length of " \o debug(obj))

\* OpCode::ListPush
exec_list_push(vm, inst) ==
  IF ~regs_ok(vm, {inst_a(inst), inst_b(inst)}) THEN Panic(vm, index_panic)
  ELSE LET val == get_register(vm, inst_b(inst))
           list == get_register(vm, inst_a(inst))
       IN IF list.t = "List"
          THEN [vm EXCEPT !.heap[list.n].items = Append(@, val)]
          ELSE Err(vm, "cannot push to " \o debug(list))

\* OpCode::StrLen
exec_str_len(vm, inst) ==
  IF ~reg_ok(vm, inst_b(inst)) THEN Panic(vm, index_panic)
  ELSE LET val == get_register(vm, inst_b(inst))
       IN IF val.t = "Str" THEN set_register(vm, inst_a(inst), VNum(str_len(val.s)))
          ELSE Err(vm, "StrLen requires string, got " \o debug(val))

\* An IterInit whose iterator is the list itself instead of a copy of its items
exec_iter_init_shared(vm, inst, order) ==
  IF ~reg_ok(vm, inst_b(inst)) THEN Panic(vm, index_panic)
  ELSE LET source == get_register(vm, inst_b(inst))
       IN IF source.t = "List"
          THEN set_register(vm, inst_a(inst), VIterator(source.n))
          ELSE IF source.t = "Map"
          THEN set_register(
                 alloc(vm, IterObj([i \in 1..Len(vm.heap[source.n].items) |->
                                      VStr(vm.heap[source.n].items[order[i]][1])], 0)),
                 inst_a(inst), VIterator(new_ref(vm)))
          ELSE Err(vm, "cannot iterate over " \o debug(source))

\* l.borrow().clone()  /  m.borrow().keys().map(Value::from_str).collect()
iter_items(vm, source, order) ==
  IF source.t = "List" THEN vm.heap[source.n].items
  ELSE LET walked == walk(vm.heap[source.n].items, order)
       IN [i \in 1..Len(walked) |-> VStr(walked[i][1])]

\* OpCode::IterInit: the iterator owns a copy of the list's items (of the
\* map's keys), cursor 0
exec_iter_init(vm, inst, order) ==
  IF ~reg_ok(vm, inst_b(inst)) THEN Panic(vm, index_panic)
  ELSE LET source == get_register(vm, inst_b(inst))
       IN IF source.t \in {"List", "Map"}
          THEN set_register(alloc(vm, IterObj(iter_items(vm, source, order), 0)),
                            inst_a(inst), VIterator(new_ref(vm)))
          ELSE Err(vm, "cannot iterate over " \o debug(source))

\* if st.1 < st.0.len() { item, cursor += 1 } else { pc += jump_offset }
iter_step(vm, iter_val, var_reg, offset) ==
  LET st == vm.heap[iter_val.n]
  IN IF st.cursor < Len(st.items)
     THEN set_register([vm EXCEPT !.heap[iter_val.n].cursor = @ + 1],
                       var_reg, st.items[st.cursor + 1])
     ELSE jump(vm, offset)

\* OpCode::IterNext with its extra word
exec_iter_next(vm, m, inst) ==
  IF ~word_ok(vm, m, top(vm).pc) THEN Panic(vm, index_panic)
  ELSE LET extra == word_at(vm, m, top(vm).pc)
           v1 == set_pc(vm, top(vm).pc + 1)
           iter_reg == inst_b(extra)
       IN IF ~reg_ok(v1, iter_reg) THEN Panic(v1, index_panic)
          ELSE LET iter_val == get_register(v1, iter_reg)
               IN IF iter_val.t = "Iterator"
                  THEN iter_step(v1, iter_val, inst_a(inst), sbx_16(inst))
                  ELSE Err(v1, "IterNext on non-iterator: " \o debug(iter_val))

\* agent.memory.get(&field_name).cloned().unwrap_or(Value::None)
memory_get(memory, field_name) ==
  IF MapHas(memory, field_name) THEN memory[field_name] ELSE VNone

\* OpCode::MLoad
exec_mload(vm, m, inst) ==
  LET field_name == load_constant_str(vm, m, inst_bx(inst))
      agent_id == current_agent_id(vm)
  IN IF IsSome(field_name.err) THEN Err(vm, Unwrap(field_name.err))
     ELSE IF IsSome(agent_id.err) THEN Err(vm, Unwrap(agent_id.err))
     ELSE IF ~MapHas(vm.agents, agent_id.id)
     THEN Err(vm, "agent " \o ToString(agent_id.id) \o " not found")
     ELSE set_register(vm, inst_a(inst),
                       memory_get(vm.agents[agent_id.id].memory, field_name.s))

\* OpCode::MStore
exec_mstore(vm, m, inst) ==
  LET field_name == load_constant_str(vm, m, inst_bx(inst))
      agent_id == current_agent_id(vm)
  IN IF IsSome(field_name.err) THEN Err(vm, Unwrap(field_name.err))
     ELSE IF ~reg_ok(vm, inst_a(inst)) THEN Panic(vm, index_panic)
     ELSE IF IsSome(agent_id.err) THEN Err(vm, Unwrap(agent_id.err))
     ELSE IF ~MapHas(vm.agents, agent_id.id)
     THEN Err(vm, "agent " \o ToString(agent_id.id) \o " not found")
     ELSE [vm EXCEPT !.agents[agent_id.id].memory =
             MapInsert(@, field_name.s, get_register(vm, inst_a(inst)))]

RECURSIVE init_memory_first_wins(_, _, _, _)
\* A memory in which the first declaration of a name is the one that counts
init_memory_first_wins(vm, m, fields, memory) ==
  IF fields = <<>> THEN [err |-> None, memory |-> memory]
  ELSE LET field == Head(fields)
           name == load_constant_str(vm, m, field.name_idx)
           dflt == IF IsSome(field.default_idx)
                   THEN load_constant(vm, m, Unwrap(field.default_idx))
                   ELSE [err |-> None, value |-> VNone]
       IN IF IsSome(name.err) THEN [err |-> name.err, memory |-> memory]
          ELSE IF IsSome(dflt.err) THEN [err |-> dflt.err, memory |-> memory]
          ELSE init_memory_first_wins(vm, m, Tail(fields),
                 IF MapHas(memory, name.s) THEN memory
                 ELSE MapInsert(memory, name.s, dflt.value))

RECURSIVE init_memory(_, _, _, _)
\* Spawn: for field in &descriptor.memory_fields { memory.insert(name, default) }
init_memory(vm, m, fields, memory) ==
  IF fields = <<>> THEN [err |-> None, memory |-> memory]
  ELSE LET field == Head(fields)
           name == load_constant_str(vm, m, field.name_idx)
           dflt == IF IsSome(field.default_idx)
                   THEN load_constant(vm, m, Unwrap(field.default_idx))
                   ELSE [err |-> None, value |-> VNone]
       IN IF IsSome(name.err) THEN [err |-> name.err, memory |-> memory]
          ELSE IF IsSome(dflt.err) THEN [err |-> dflt.err, memory |-> memory]
          ELSE init_memory(vm, m, Tail(fields), MapInsert(memory, name.s, dflt.value))

\* A Spawn that takes the counter's value as the id and leaves the counter
insert_agent_same_id(vm, instance) ==
  [vm EXCEPT !.agents = MapInsert(@, vm.next_agent_id, instance),
             !.mail_events = MapInsert(@, vm.next_agent_id, <<>>)]

\* let id = self.next_agent_id; self.next_agent_id += 1; self.agents.insert(id, ..)
insert_agent(vm, instance) ==
  [vm EXCEPT !.next_agent_id = vm.next_agent_id + 1,
             !.agents = MapInsert(@, vm.next_agent_id, instance),
             !.mail_events = MapInsert(@, vm.next_agent_id, <<>>)]

\* OpCode::Spawn
exec_spawn(vm, m, inst) ==
  IF ~IsSome(get_agent(m, inst_bx(inst)))
  THEN Err(vm, "agent descriptor " \o ToString(inst_bx(inst)) \o " not found")
  ELSE LET descriptor == Unwrap(get_agent(m, inst_bx(inst)))
           mem == init_memory(vm, m, descriptor.memory_fields, EmptyMap)
       IN IF IsSome(mem.err) THEN Err(vm, Unwrap(mem.err))
          ELSE set_register(
                 insert_agent(vm, AgentInstance(inst_bx(inst), mem.memory, <<>>)),
                 inst_a(inst), VAgentHandle(vm.next_agent_id))

\* agent.mailbox.push_back(message)
push_back(mailbox, message) == Append(mailbox, message)

\* A mailbox that hands out the newest value first
pop_front_newest(mailbox) ==
  IF mailbox = <<>> THEN [value |-> None, rest |-> <<>>]
  ELSE [value |-> Some(mailbox[Len(mailbox)]),
        rest |-> SubSeq(mailbox, 1, Len(mailbox) - 1)]

\* agent.mailbox.pop_front(): the removed value (Option) and the rest
pop_front(mailbox) ==
  IF mailbox = <<>> THEN [value |-> None, rest |-> <<>>]
  ELSE [value |-> Some(Head(mailbox)), rest |-> Tail(mailbox)]

\* A Send that hands the message over by running the target's first method
exec_send_delivering(vm, m, inst) ==
  IF ~regs_ok(vm, {inst_a(inst), inst_b(inst)}) THEN Panic(vm, index_panic)
  ELSE LET handle == get_register(vm, inst_a(inst))
           message == get_register(vm, inst_b(inst))
       IN IF handle.t # "AgentHandle"
          THEN Err(vm, "send target is not an agent handle: " \o
                       to_string(vm.heap, handle))
          ELSE IF ~MapHas(vm.agents, handle.n)
          THEN Err(vm, "agent " \o ToString(handle.n) \o " not found")
          ELSE LET sent == [vm EXCEPT !.agents[handle.n].mailbox = push_back(@, message),
                                      !.mail_events[handle.n] = Append(@, <<"send", message>>)]
                   methods == m.agents[vm.agents[handle.n].descriptor_idx + 1].methods
               IN IF methods = <<>> THEN sent
                  ELSE push_frame_with_agent(sent, m, methods[1][2],
                                             Some(<<top(vm).function_idx, top(vm).pc, 0>>),
                                             Some(handle.n))

\* OpCode::Send
exec_send(vm, m, inst) ==
  IF ~regs_ok(vm, {inst_a(inst), inst_b(inst)}) THEN Panic(vm, index_panic)
  ELSE LET handle == get_register(vm, inst_a(inst))
           message == get_register(vm, inst_b(inst))
       IN IF handle.t # "AgentHandle"
          THEN Err(vm, "send target is not an agent handle: " \o
                       to_string(vm.heap, handle))
          ELSE IF ~MapHas(vm.agents, handle.n)
          THEN Err(vm, "agent " \o ToString(handle.n) \o " not found")
          ELSE [vm EXCEPT !.agents[handle.n].mailbox = push_back(@, message),
                          !.mail_events[handle.n] = Append(@, <<"send", message>>)]

\* OpCode::Recv
exec_recv(vm, inst) ==
  IF ~reg_ok(vm, inst_b(inst)) THEN Panic(vm, index_panic)
  ELSE LET handle == get_register(vm, inst_b(inst))
       IN IF handle.t # "AgentHandle"
          THEN Err(vm, "recv target is not an agent handle: " \o
                       to_string(vm.heap, handle))
          ELSE IF ~MapHas(vm.agents, handle.n)
          THEN Err(vm, "agent " \o ToString(handle.n) \o " not found")
          ELSE LET r == pop_front(vm.agents[handle.n].mailbox)
                   value == IF IsSome(r.value) THEN Unwrap(r.value) ELSE VNone
               IN set_register(
                    [vm EXCEPT !.agents[handle.n].mailbox = r.rest,
                               !.mail_events[handle.n] = Append(@, <<"recv", value>>)],
                    inst_a(inst), value)

\* Vec<String>::join(sep)
RECURSIVE join(_, _)
join(strs, sep) ==
  IF strs = <<>> THEN ""
  ELSE IF Len(strs) = 1 THEN strs[1]
       ELSE strs[1] \o sep \o join(Tail(strs), sep)

(***************************************************************************)
(* agentus-runtime/host.rs: the host interface.  A Result<String, String>  *)
(* is [ok, s]; a host whose outcome the VM cannot know is given the        *)
(* outcome as `choice`.                                                    *)
(***************************************************************************)
ExecRequest(model, system_prompt, user_prompt) ==
  [model |-> model, system_prompt |-> system_prompt, user_prompt |-> user_prompt]
ToolCallRequest(tool_name, args) == [tool_name |-> tool_name, args |-> args]

HostOk(s) == [ok |-> TRUE, s |-> s]
HostErr(s) == [ok |-> FALSE, s |-> s]

\* impl HostInterface for EchoHost
EchoHost_exec(request) == HostOk(request.user_prompt)
EchoHost_tool_call(request) ==
  HostOk(request.tool_name \o "(" \o
         join([i \in 1..Len(request.args) |->
                 request.args[i][1] \o "=" \o request.args[i][2]], ", ") \o ")")

\* impl HostInterface for NoHost
NoHost_exec(request) == HostErr("no host configured: cannot execute LLM prompts")
NoHost_tool_call(request) == HostErr("no host configured: cannot call tools")

\* trait HostInterface: any other implementation answers Ok(..) or Err(..)
Hosts == {"NoHost", "EchoHost", "OtherHost"}
HostChoices(h) == IF h = "OtherHost" THEN {"ok", "err"} ELSE {"fixed"}
OtherHost_answer(choice) ==
  IF choice = "ok" THEN HostOk("answer") ELSE HostErr("host failed")

\* self.host.exec(request)
host_exec(h, request, choice) ==
  CASE h = "NoHost" -> NoHost_exec(request)
    [] h = "EchoHost" -> EchoHost_exec(request)
    [] h = "OtherHost" -> OtherHost_answer(choice)

\* self.host.tool_call(request)
host_tool_call(h, request, choice) ==
  CASE h = "NoHost" -> NoHost_tool_call(request)
    [] h = "EchoHost" -> EchoHost_tool_call(request)
    [] h = "OtherHost" -> OtherHost_answer(choice)

\* VM::get_agent_context: (model, system prompt) of the top frame's agent
get_agent_context(vm, m) ==
  LET agent_id == top(vm).agent_id
      none == [model |-> None, system_prompt |-> None]
      str(idx) == LET r == load_constant_str(vm, m, idx)
                  IN IF IsSome(r.err) THEN None ELSE Some(r.s)
      of(desc) ==
        [model |-> IF IsSome(desc.model_idx) THEN str(Unwrap(desc.model_idx))
                   ELSE None,
         system_prompt |-> IF IsSome(desc.system_prompt_idx)
                           THEN str(Unwrap(desc.system_prompt_idx)) ELSE None]
  IN IF ~IsSome(agent_id) THEN none
     ELSE IF ~MapHas(vm.agents, Unwrap(agent_id)) THEN none
     ELSE IF ~IsSome(get_agent(m, vm.agents[Unwrap(agent_id)].descriptor_idx)) THEN none
     ELSE of(Unwrap(get_agent(m, vm.agents[Unwrap(agent_id)].descriptor_idx)))

\* An Exec that turns the host's error into an Error value and goes on
exec_exec_error_value(vm, m, inst, choice) ==
  IF ~reg_ok(vm, inst_b(inst)) THEN Panic(vm, index_panic)
  ELSE LET prompt == to_string(vm.heap, get_register(vm, inst_b(inst)))
           context == get_agent_context(vm, m)
           request == ExecRequest(IF IsSome(context.model) THEN Unwrap(context.model)
                                  ELSE "default",
                                  context.system_prompt, prompt)
           result == host_exec(vm.host, request, choice)
           asked == [vm EXCEPT !.host_calls = Append(@, <<"exec", request>>)]
       IN set_register(asked, inst_a(inst),
                       IF result.ok THEN VStr(result.s)
                       ELSE VError("exec error: " \o result.s))

\* OpCode::Exec
exec_exec(vm, m, inst, choice) ==
  IF ~reg_ok(vm, inst_b(inst)) THEN Panic(vm, index_panic)
  ELSE LET prompt == to_string(vm.heap, get_register(vm, inst_b(inst)))
           context == get_agent_context(vm, m)
           request == ExecRequest(IF IsSome(context.model) THEN Unwrap(context.model)
                                  ELSE "default",
                                  context.system_prompt, prompt)
           result == host_exec(vm.host, request, choice)
           asked == [vm EXCEPT !.host_calls = Append(@, <<"exec", request>>)]
       IN IF ~result.ok THEN Err(asked, "exec error: " \o result.s)
          ELSE set_register(asked, inst_a(inst), VStr(result.s))

\* OpCode::TCall, the loop `for i in 0..num_args`: the (name, value) pairs, or
\* the error or the panic that ends it
RECURSIVE tool_args(_, _, _, _, _, _)
tool_args(vm, m, tool_desc, first_arg_reg, i, num_args) ==
  IF i >= num_args THEN [err |-> None, panic |-> FALSE, args |-> <<>>]
  ELSE LET named == i < Len(tool_desc.params)
           r == IF named THEN load_constant_str(vm, m, tool_desc.params[i + 1].name_idx)
                ELSE [err |-> None, s |-> "arg" \o ToString(i)]
           rest == tool_args(vm, m, tool_desc, first_arg_reg, i + 1, num_args)
       IN IF IsSome(r.err) THEN [err |-> r.err, panic |-> FALSE, args |-> <<>>]
          ELSE IF ~reg_ok(vm, first_arg_reg + i)
          THEN [err |-> None, panic |-> TRUE, args |-> <<>>]
          ELSE [rest EXCEPT !.args =
                  <<<<r.s, to_string(vm.heap, get_register(vm, first_arg_reg + i))>>>>
                  \o @]

\* OpCode::TCall
exec_tcall(vm, m, inst, choice) ==
  IF ~word_ok(vm, m, top(vm).pc) THEN Panic(vm, index_panic)
  ELSE LET extra == word_at(vm, m, top(vm).pc)
           v1 == set_pc(vm, top(vm).pc + 1)
           first_arg_reg == inst_b(extra)
           num_args == inst_c(extra)
           tool_desc == get_tool(m, inst_bx(inst))
           tool_name == load_constant_str(v1, m, Unwrap(tool_desc).name_idx)
           built == tool_args(v1, m, Unwrap(tool_desc), first_arg_reg, 0, num_args)
           request == ToolCallRequest(tool_name.s, built.args)
           result == host_tool_call(v1.host, request, choice)
           asked == [v1 EXCEPT !.host_calls = Append(@, <<"tool_call", request>>)]
       IN IF ~IsSome(tool_desc)
          THEN Err(v1, "tool descriptor " \o ToString(inst_bx(inst)) \o " not found")
          ELSE IF IsSome(tool_name.err) THEN Err(v1, Unwrap(tool_name.err))
          ELSE IF IsSome(built.err) THEN Err(v1, Unwrap(built.err))
          ELSE IF built.panic THEN Panic(v1, index_panic)
          ELSE IF ~result.ok THEN Err(asked, "tool call error: " \o result.s)
          ELSE set_register(asked, inst_a(inst), VStr(result.s))

(***************************************************************************)
(* The state machine.  The pipeline is main.rs's cmd_exec: resolve, then   *)
(* Compiler::compile, then VM::run; each dispatch of the VM's loop is one  *)
(* step.                                                                   *)
(***************************************************************************)
\* The VM seen as a record, with the loop still running
CurVM ==
  [call_stack |-> call_stack, agents |-> agents, next_agent_id |-> next_agent_id,
   outputs |-> outputs, heap |-> heap, mail_events |-> mail_events,
   host |-> host, host_calls |-> host_calls, sink |-> sink, result |-> None]

\* The state after a handler: the VM's fields, and the end of the run when
\* the handler returned from execute()
Commit(vm) ==
  /\ call_stack' = vm.call_stack
  /\ agents' = vm.agents
  /\ next_agent_id' = vm.next_agent_id
  /\ outputs' = vm.outputs
  /\ heap' = vm.heap
  /\ mail_events' = vm.mail_events
  /\ host' = vm.host
  /\ host_calls' = vm.host_calls
  /\ sink' = vm.sink
  /\ stage' = IF IsSome(vm.result) THEN "done" ELSE "running"
  /\ error' = IF IsSome(vm.result) /\ Unwrap(vm.result)[1] = "Err"
              THEN <<"Runtime", Unwrap(vm.result)[2]>>
              ELSE IF IsSome(vm.result) /\ Unwrap(vm.result)[1] = "Panic"
                   THEN <<"Panic", Unwrap(vm.result)[2]>>
                   ELSE error
  /\ UNCHANGED <<input, module>>

Running == stage = "running" /\ call_stack # <<>>
Fetching == Running /\ word_ok(CurVM, module, top(CurVM).pc)
cur_inst == word_at(CurVM, module, top(CurVM).pc)
cur_op == Unwrap(opcode(cur_inst))
Dispatching(ops) == Fetching /\ IsSome(opcode(cur_inst)) /\ cur_op \in ops
\* self.call_stack.last_mut().unwrap().pc += 1
Advanced == set_pc(CurVM, top(CurVM).pc + 1)

ArithOps == {"Add", "Sub", "Mul", "Div", "Mod"}
CmpOps == {"Lt", "Lte", "Gt", "Gte"}
EqOps == {"Eq", "Neq"}
LogicOps == {"And", "Or"}
LoadImmOps == {"LoadNone", "LoadTrue", "LoadFalse"}
JmpCondOps == {"JmpTrue", "JmpFalse"}
\* The opcodes with an arm in execute(); the rest fall to the `_` arm
ImplementedOps ==
  {"Nop", "Halt", "LoadConst", "Move", "Neg", "Not", "Concat", "Jmp", "Emit",
   "Log", "Call", "Ret", "RetNone", "NewList", "NewMap", "IndexGet", "IndexSet",
   "Len", "ListPush", "StrLen", "IterInit", "IterNext", "MLoad", "MStore",
   "Spawn", "Exec", "Send", "Recv", "TCall"}
    \cup ArithOps \cup CmpOps \cup EqOps \cup LogicOps \cup LoadImmOps
    \cup JmpCondOps
AllOps == {OpTable[k][1] : k \in 1..Len(OpTable)}

\* if self.call_stack.is_empty() { return Ok(()) }
Finish ==
  /\ stage = "running" /\ call_stack = <<>>
  /\ stage' = "done"
  /\ UNCHANGED <<input, error, module, call_stack, agents, next_agent_id,
                 outputs, heap, mail_events, host, host_calls, sink>>

\* A loop that fetches func.instructions[pc] without the length test
FallThrough_reading_past ==
  /\ Running /\ ~word_ok(CurVM, module, top(CurVM).pc)
  /\ Commit(Panic(CurVM, index_panic))

\* if pc >= func.instructions.len() { self.call_stack.pop(); continue }
FallThrough ==
  /\ Running /\ ~word_ok(CurVM, module, top(CurVM).pc)
  /\ Commit([CurVM EXCEPT !.call_stack = SubSeq(@, 1, Len(@) - 1)])

\* format!("0x{:02X}", byte)
HexDigits == <<"0", "1", "2", "3", "4", "5", "6", "7", "8", "9", "A", "B", "C", "D", "E", "F">>
hex_byte(byte) == "0x" \o HexDigits[(byte \div 16) + 1] \o HexDigits[(byte % 16) + 1]

\* inst.opcode().ok_or_else(|| "invalid opcode 0x.. at pc=..")
InvalidOpcode ==
  /\ Fetching /\ ~IsSome(opcode(cur_inst))
  /\ Commit(Err(CurVM, "invalid opcode " \o hex_byte(opcode_byte(cur_inst)) \o
                       " at pc=" \o ToString(top(CurVM).pc)))

\* _ => Err("opcode .. not yet implemented")
NotImplemented ==
  /\ Dispatching(AllOps \ ImplementedOps)
  /\ Commit(Err(Advanced, "opcode " \o cur_op \o " not yet implemented"))

OpNop == Dispatching({"Nop"}) /\ Commit(Advanced)
OpHalt == Dispatching({"Halt"}) /\ Commit(Ok(Advanced))
OpLoadConst == Dispatching({"LoadConst"}) /\ Commit(exec_load_const(Advanced, module, cur_inst))
OpLoadImm == Dispatching(LoadImmOps) /\ Commit(exec_load_imm(Advanced, cur_op, cur_inst))
OpMove == Dispatching({"Move"}) /\ Commit(exec_move(Advanced, cur_inst))
OpArith == Dispatching(ArithOps) /\ Commit(exec_arith(Advanced, cur_op, cur_inst))
OpNeg == Dispatching({"Neg"}) /\ Commit(exec_neg(Advanced, cur_inst))
OpEq == Dispatching(EqOps) /\ Commit(exec_eq(Advanced, cur_op, cur_inst))
OpCmp == Dispatching(CmpOps) /\ Commit(exec_cmp(Advanced, cur_op, cur_inst))
OpLogic == Dispatching(LogicOps) /\ Commit(exec_logic(Advanced, cur_op, cur_inst))
OpNot == Dispatching({"Not"}) /\ Commit(exec_not(Advanced, cur_inst))
OpConcat ==
  /\ Dispatching({"Concat"})
  /\ \E order_b \in Orders(walk_len(Advanced, inst_b(cur_inst))),
        order_c \in Orders(walk_len(Advanced, inst_c(cur_inst))) :
        Commit(exec_concat(Advanced, cur_inst, order_b, order_c))
OpJmp == Dispatching({"Jmp"}) /\ Commit(exec_jmp(Advanced, cur_inst))
OpJmpCond == Dispatching(JmpCondOps) /\ Commit(exec_jmp_cond(Advanced, cur_op, cur_inst))
OpEmit == Dispatching({"Emit"}) /\ Commit(exec_emit(Advanced, cur_inst))
\* if func_idx_raw == 0xFFFE { method call } else { regular call }
OpCallMethod ==
  /\ Dispatching({"Call"}) /\ inst_bx(cur_inst) = 65534
  /\ \E order \in Orders(IF word_ok(Advanced, module, top(Advanced).pc)
                          THEN walk_len(Advanced,
                                 inst_b(word_at(Advanced, module, top(Advanced).pc)))
                          ELSE 0) :
        Commit(exec_call_method(Advanced, module, cur_inst, order))
OpCallFunction ==
  /\ Dispatching({"Call"}) /\ inst_bx(cur_inst) # 65534
  /\ Commit(exec_call_function(Advanced, module, cur_inst))
OpRet == Dispatching({"Ret"}) /\ Commit(exec_ret(Advanced, cur_inst))
OpRetNone == Dispatching({"RetNone"}) /\ Commit(exec_ret_none(Advanced))
OpNewList == Dispatching({"NewList"}) /\ Commit(exec_new_list(Advanced, cur_inst))
OpNewMap == Dispatching({"NewMap"}) /\ Commit(exec_new_map(Advanced, cur_inst))
OpIndexGet == Dispatching({"IndexGet"}) /\ Commit(exec_index_get(Advanced, cur_inst))
OpIndexSet == Dispatching({"IndexSet"}) /\ Commit(exec_index_set(Advanced, cur_inst))
OpLen == Dispatching({"Len"}) /\ Commit(exec_len(Advanced, cur_inst))
OpListPush == Dispatching({"ListPush"}) /\ Commit(exec_list_push(Advanced, cur_inst))
OpStrLen == Dispatching({"StrLen"}) /\ Commit(exec_str_len(Advanced, cur_inst))
OpIterInit ==
  /\ Dispatching({"IterInit"})
  /\ \E order \in Orders(walk_len(Advanced, inst_b(cur_inst))) :
        Commit(exec_iter_init(Advanced, cur_inst, order))
OpIterNext == Dispatching({"IterNext"}) /\ Commit(exec_iter_next(Advanced, module, cur_inst))
OpMLoad == Dispatching({"MLoad"}) /\ Commit(exec_mload(Advanced, module, cur_inst))
OpMStore == Dispatching({"MStore"}) /\ Commit(exec_mstore(Advanced, module, cur_inst))
OpSpawn == Dispatching({"Spawn"}) /\ Commit(exec_spawn(Advanced, module, cur_inst))
OpSend == Dispatching({"Send"}) /\ Commit(exec_send(Advanced, module, cur_inst))
OpRecv == Dispatching({"Recv"}) /\ Commit(exec_recv(Advanced, cur_inst))
OpLog == Dispatching({"Log"}) /\ Commit(exec_log(Advanced, cur_inst))
OpExec ==
  /\ Dispatching({"Exec"})
  /\ \E choice \in HostChoices(host) :
        Commit(exec_exec(Advanced, module, cur_inst, choice))
OpTCall ==
  /\ Dispatching({"TCall"})
  /\ \E choice \in HostChoices(host) :
        Commit(exec_tcall(Advanced, module, cur_inst, choice))

(***************************************************************************)
(* The inputs.  A source input is a parsed program (the AST the parser     *)
(* hands on); a module input is a hand-built Module given to VM::new.      *)
(* Programs come in bounded families and as a fixed list.                  *)
(***************************************************************************)
MaxMailOps == 4
MaxMemOps == 3
MaxListLen == 3
MaxLoop == 3
MaxArgs == 3
MaxShareOps == 2
MaxPoolOps == 3
EdgeWidth == 2
MaxActorOps == 3
MaxIndexLen == 2
MaxElems == 2
MaxParams == 3
MaxDecls == 3

SeqsUpTo(S, n) == UNION {[1..k -> S] : k \in 0..n}

\* agent Box {}  let a = Box()  let b = Box()  then sends (of the op's
\* position) and `emit recv ..` in the given order
MailOps == {<<"send", "a">>, <<"send", "b">>, <<"recv", "a">>, <<"recv", "b">>}
MailProgram(ops) ==
  <<AgentDef("Box", None, None, <<>>, <<>>),
    LetStmt("a", FnCall("Box", <<>>)),
    LetStmt("b", FnCall("Box", <<>>))>> \o
  [i \in 1..Len(ops) |->
     IF ops[i][1] = "send" THEN SendStmt(Ident(ops[i][2]), NumberLit(i))
     ELSE EmitStmt(RecvExpr(Ident(ops[i][2])))]

\* agent Actor { fn hit() { emit 1  return 2 }
\*               fn tell(other, v) { send other, v  return 3 } }
\* let a = Actor()   let b = Actor()
\* then, the i-th of them with the number 10 + i:
\*   send x, n  /  emit recv x  /  emit x.hit()  /  emit a.tell(b, n)
Actor ==
  AgentDef("Actor", None, None, <<>>,
    <<FnDef("hit", <<>>, <<EmitStmt(NumberLit(1)), ReturnStmt(Some(NumberLit(2)))>>),
      FnDef("tell", <<"other", "v">>,
        <<SendStmt(Ident("other"), Ident("v")), ReturnStmt(Some(NumberLit(3)))>>)>>)
ActorOps ==
  {<<"send", "a">>, <<"recv", "a">>, <<"recv", "b">>, <<"hit", "a">>, <<"hit", "b">>,
   <<"tell", "a">>}
ActorProgram(ops) ==
  <<Actor, LetStmt("a", FnCall("Actor", <<>>)), LetStmt("b", FnCall("Actor", <<>>))>> \o
  [i \in 1..Len(ops) |->
     CASE ops[i][1] = "send" -> SendStmt(Ident(ops[i][2]), NumberLit(10 + i))
       [] ops[i][1] = "recv" -> EmitStmt(RecvExpr(Ident(ops[i][2])))
       [] ops[i][1] = "hit" -> EmitStmt(MethodCall(Ident(ops[i][2]), "hit", <<>>))
       [] ops[i][1] = "tell" ->
            EmitStmt(MethodCall(Ident("a"), "tell", <<Ident("b"), NumberLit(10 + i)>>))]

\* agent Cell { memory { count = 0, note }
\*   fn set(v) { self.count = v }   fn get() { return self.count }
\*   fn relay(other, v) { other.set(v)  return self.count } }
Cell ==
  AgentDef("Cell", None, None,
    <<MemoryField("count", Some(NumberLit(0))), MemoryField("note", None)>>,
    <<FnDef("set", <<"v">>, <<FieldAssignStmt(Ident("self"), "count", Ident("v"))>>),
      FnDef("get", <<>>, <<ReturnStmt(Some(FieldAccess(Ident("self"), "count")))>>),
      FnDef("relay", <<"other", "v">>,
        <<ExprStmt(MethodCall(Ident("other"), "set", <<Ident("v")>>)),
          ReturnStmt(Some(FieldAccess(Ident("self"), "count")))>>)>>)
MemOps ==
  {<<"set", "a">>, <<"set", "b">>, <<"get", "a">>, <<"get", "b">>,
   <<"relay", "a">>, <<"relay", "b">>}
Other(name) == IF name = "a" THEN "b" ELSE "a"
MemProgram(ops) ==
  <<Cell, LetStmt("a", FnCall("Cell", <<>>)), LetStmt("b", FnCall("Cell", <<>>))>> \o
  [i \in 1..Len(ops) |->
     CASE ops[i][1] = "set" ->
            ExprStmt(MethodCall(Ident(ops[i][2]), "set", <<NumberLit(i)>>))
       [] ops[i][1] = "get" -> EmitStmt(MethodCall(Ident(ops[i][2]), "get", <<>>))
       [] ops[i][1] = "relay" ->
            EmitStmt(MethodCall(Ident(ops[i][2]), "relay",
                                <<Ident(Other(ops[i][2])), NumberLit(i)>>))]

\* emit 0   for x in [10, 20, ..] { emit x  <inner> }   emit 99
\* where <inner> is nothing, a nested for over the same list, or an if
ForProgram(n, inner) ==
  LET xs == ListLit([i \in 1..n |-> NumberLit(10 * i)])
      body == CASE inner = "plain" -> <<EmitStmt(Ident("x"))>>
                [] inner = "nested" ->
                     <<EmitStmt(Ident("x")),
                       ForStmt("y", xs, <<EmitStmt(BinOp(Ident("x"), "Add", Ident("y")))>>)>>
                [] inner = "if" ->
                     <<IfStmt(BinOp(Ident("x"), "Gt", NumberLit(10)),
                              <<EmitStmt(Ident("x"))>>,
                              Some(<<EmitStmt(NumberLit(1))>>))>>
  IN <<EmitStmt(NumberLit(0)), ForStmt("x", xs, body), EmitStmt(NumberLit(99))>>
ForInners == {"plain", "nested", "if"}

\* let i = 0  while i < n { <inner>  i = i + 1 }  emit 99
WhileProgram(n, inner) ==
  LET body == CASE inner = "plain" -> <<EmitStmt(Ident("i"))>>
                [] inner = "nested" ->
                     <<LetStmt("j", NumberLit(0)),
                       WhileStmt(BinOp(Ident("j"), "Lt", Ident("i")),
                         <<EmitStmt(Ident("j")),
                           AssignStmt("j", BinOp(Ident("j"), "Add", NumberLit(1)))>>)>>
                [] inner = "if" ->
                     <<IfStmt(BinOp(BinOp(Ident("i"), "Mod", NumberLit(2)), "Eq",
                                    NumberLit(0)),
                              <<EmitStmt(Ident("i"))>>, None)>>
  IN <<LetStmt("i", NumberLit(0)),
       WhileStmt(BinOp(Ident("i"), "Lt", NumberLit(n)),
         body \o <<AssignStmt("i", BinOp(Ident("i"), "Add", NumberLit(1)))>>),
       EmitStmt(NumberLit(99))>>
WhileInners == {"plain", "nested", "if"}

\* emit 0  if c { emit 1 [if d { emit 2 } else { emit 3 }] } [else { emit 4 }]  emit 99
Conds ==
  <<BoolLit(TRUE), BoolLit(FALSE), NumberLit(0), NumberLit(7), StringLit(""),
    StringLit("a"), NoneLit>>
IfProgram(c, d, else_kind) ==
  LET inner == IF d = 0 THEN <<>>
               ELSE <<IfStmt(Conds[d], <<EmitStmt(NumberLit(2))>>,
                             Some(<<EmitStmt(NumberLit(3))>>))>>
  IN <<EmitStmt(NumberLit(0)),
       IfStmt(Conds[c], <<EmitStmt(NumberLit(1))>> \o inner,
              IF else_kind = "else" THEN Some(<<EmitStmt(NumberLit(4))>>) ELSE None),
       EmitStmt(NumberLit(99))>>
ElseKinds == {"else", "none"}

\* fn f(p1, .., pn) { [return pk] }   let base = 5   emit f(base + 1, .., base + n)
\* emit 99;  k = 0 is the function without return
ParamNames == <<"p1", "p2", "p3", "p4">>
CallProgram(n, k) ==
  <<FnDef("f", SubSeq(ParamNames, 1, n),
          IF k = 0 THEN <<EmitStmt(NumberLit(1))>>
          ELSE <<ReturnStmt(Some(Ident(ParamNames[k])))>>),
    LetStmt("base", NumberLit(5)),
    EmitStmt(FnCall("f", [i \in 1..n |-> BinOp(Ident("base"), "Add", NumberLit(i))])),
    EmitStmt(NumberLit(99))>>

\* agent Counter { memory { count = 0 }
\*   fn inc() { self.count = self.count + 1  return self.count } }
Counter ==
  AgentDef("Counter", None, None, <<MemoryField("count", Some(NumberLit(0)))>>,
    <<FnDef("inc", <<>>,
        <<FieldAssignStmt(Ident("self"), "count",
            BinOp(FieldAccess(Ident("self"), "count"), "Add", NumberLit(1))),
          ReturnStmt(Some(FieldAccess(Ident("self"), "count")))>>)>>)
Inc(name) == EmitStmt(MethodCall(Ident(name), "inc", <<>>))

\* agent Leaky { memory { x = 1 }
\*   fn peek() { fn helper() { return self.x }  return helper() }
\*   fn poke() { fn setter() { self.x = 2 }  setter()  return 0 } }
Leaky ==
  AgentDef("Leaky", None, None, <<MemoryField("x", Some(NumberLit(1)))>>,
    <<FnDef("peek", <<>>,
        <<FnDef("helper", <<>>, <<ReturnStmt(Some(FieldAccess(Ident("self"), "x")))>>),
          ReturnStmt(Some(FnCall("helper", <<>>)))>>),
      FnDef("poke", <<>>,
        <<FnDef("setter", <<>>, <<FieldAssignStmt(Ident("self"), "x", NumberLit(2))>>),
          ExprStmt(FnCall("setter", <<>>)),
          ReturnStmt(Some(NumberLit(0)))>>)>>)

\* agent Ghost { memory { count = 0 }
\*   fn peek() { return self.ghost }   fn poke() { self.ghost = 5  return 0 } }
Ghost ==
  AgentDef("Ghost", None, None, <<MemoryField("count", Some(NumberLit(0)))>>,
    <<FnDef("peek", <<>>, <<ReturnStmt(Some(FieldAccess(Ident("self"), "ghost")))>>),
      FnDef("poke", <<>>,
        <<FieldAssignStmt(Ident("self"), "ghost", NumberLit(5)),
          ReturnStmt(Some(NumberLit(0)))>>)>>)

\* agent Dup { memory { x = 1, y, x = 2, z = -1, w = "hello", v = true } }
Dup ==
  AgentDef("Dup", Some("m"), Some("p"),
    <<MemoryField("x", Some(NumberLit(1))), MemoryField("y", None),
      MemoryField("x", Some(NumberLit(2))),
      MemoryField("z", Some(UnaryOp("Neg", NumberLit(1)))),
      MemoryField("w", Some(StringLit("hello"))),
      MemoryField("v", Some(BoolLit(TRUE)))>>,
    <<FnDef("x", <<>>, <<ReturnStmt(Some(FieldAccess(Ident("self"), "x")))>>),
      FnDef("y", <<>>, <<ReturnStmt(Some(FieldAccess(Ident("self"), "y")))>>)>>)

\* let xs = [10, 20, ..]   for x in xs { emit x  [xs.push(x)] }   emit xs.len()
SnapProgram(n, mut) ==
  <<LetStmt("xs", ListLit([i \in 1..n |-> NumberLit(10 * i)])),
    ForStmt("x", Ident("xs"),
      <<EmitStmt(Ident("x"))>> \o
      (IF mut = "push"
       THEN <<ExprStmt(MethodCall(Ident("xs"), "push", <<Ident("x")>>))>>
       ELSE <<>>)),
    EmitStmt(MethodCall(Ident("xs"), "len", <<>>))>>
SnapMuts == {"none", "push"}

\* fn one() { return 1 }   let x = 5   emit [e1, .., en]
\* where ei is the literal 10 * i, the local x, x + i or the call one()
ElemKinds == {"lit", "ident", "binop", "call"}
ListElem(kind, i) ==
  CASE kind = "lit" -> NumberLit(10 * i)
    [] kind = "ident" -> Ident("x")
    [] kind = "binop" -> BinOp(Ident("x"), "Add", NumberLit(i))
    [] kind = "call" -> FnCall("one", <<>>)
ListProgram(kinds) ==
  <<FnDef("one", <<>>, <<ReturnStmt(Some(NumberLit(1)))>>),
    LetStmt("x", NumberLit(5)),
    EmitStmt(ListLit([i \in 1..Len(kinds) |-> ListElem(kinds[i], i)]))>>

\* tool t { description { "d" } param p1: str [= "d1"] .. param pn: str [= "dn"] }
\* let x = "a1"   emit 0   emit t(x, "a2", .., "ak")   emit 9
\* `defaults[j]` says whether parameter j declares a default.
ToolProgram(defaults, k) ==
  <<ToolDef("t", Some("d"),
            [j \in 1..Len(defaults) |->
               ToolParam("p" \o ToString(j),
                         IF defaults[j] THEN Some(StringLit("d" \o ToString(j)))
                         ELSE None)]),
    LetStmt("x", StringLit("a1")),
    EmitStmt(NumberLit(0)),
    EmitStmt(FnCall("t", [i \in 1..k |->
                            IF i = 1 THEN Ident("x")
                            ELSE StringLit("a" \o ToString(i))])),
    EmitStmt(NumberLit(9))>>

\* emit 0   emit exec "hi"   emit 9                               (top)
\* agent Asker { model = "m1"  system prompt { "sp" }
\*   fn ask(q) { return exec q } }
\* let a = Asker()   emit 0   emit a.ask("hi")   emit 9            (method)
ExecKinds == {"top", "method"}
ExecProgram(kind) ==
  IF kind = "top"
  THEN <<EmitStmt(NumberLit(0)), EmitStmt(ExecBlock(StringLit("hi"))),
         EmitStmt(NumberLit(9))>>
  ELSE <<AgentDef("Asker", Some("m1"), Some("sp"), <<>>,
           <<FnDef("ask", <<"q">>, <<ReturnStmt(Some(ExecBlock(Ident("q"))))>>)>>),
         LetStmt("a", FnCall("Asker", <<>>)),
         EmitStmt(NumberLit(0)),
         EmitStmt(MethodCall(Ident("a"), "ask", <<StringLit("hi")>>)),
         EmitStmt(NumberLit(9))>>

\* Declarations of the one name `n`, in the given order, as an agent, a tool
\* or a function, and one call:
\*   agent n {}   tool n { param p1: num }   fn n(p1) { return p1 }
\*   emit n(7)
DeclKinds == {"agent", "tool", "fn"}
Decl(kind) ==
  CASE kind = "agent" -> AgentDef("n", None, None, <<>>, <<>>)
    [] kind = "tool" -> ToolDef("n", None, <<ToolParam("p1", None)>>)
    [] kind = "fn" -> FnDef("n", <<"p1">>, <<ReturnStmt(Some(Ident("p1")))>>)
NamesProgram(decls) ==
  [i \in 1..Len(decls) |-> Decl(decls[i])] \o <<EmitStmt(FnCall("n", <<NumberLit(7)>>))>>

\* A call from inside the body of a function or of a method, and a call after it:
\*   fn g() { return 1 }   agent B {}   tool T {}
\*   fn f() { [fn h() { return 2 }]  return <callee>() }
\*     / agent A { fn f() { [fn h() { return 2 }]  return <callee>() } }
\*   fn k() { return 3 }
\*   emit f() / let a = A()  emit a.f() / emit h() / emit k()
ScopeKinds == {"fn", "method"}
ScopeCallees == {"g", "f", "k", "h", "B", "T"}
ScopeOuters == {"f", "h", "k"}
ScopeBody(callee, inner) ==
  (IF inner THEN <<FnDef("h", <<>>, <<ReturnStmt(Some(NumberLit(2)))>>)>> ELSE <<>>)
  \o <<ReturnStmt(Some(FnCall(callee, <<>>)))>>
ScopeProgram(kind, callee, inner, outer) ==
  <<FnDef("g", <<>>, <<ReturnStmt(Some(NumberLit(1)))>>),
    AgentDef("B", None, None, <<>>, <<>>),
    ToolDef("T", None, <<>>),
    IF kind = "fn" THEN FnDef("f", <<>>, ScopeBody(callee, inner))
    ELSE AgentDef("A", None, None, <<>>, <<FnDef("f", <<>>, ScopeBody(callee, inner))>>),
    FnDef("k", <<>>, <<ReturnStmt(Some(NumberLit(3)))>>)>>
  \o (IF outer # "f" THEN <<EmitStmt(FnCall(outer, <<>>))>>
      ELSE IF kind = "fn" THEN <<EmitStmt(FnCall("f", <<>>))>>
      ELSE <<LetStmt("a", FnCall("A", <<>>)),
             EmitStmt(MethodCall(Ident("a"), "f", <<>>))>>)

\* Two locals, the second made from the first, and an assignment to one:
\*   let a = 1
\*   let b = a  /  let b = a + 0  /  let b = 0  b = a
\*   a = 2  /  b = 2
\*   emit a   emit b
AliasKinds == {"ident", "sum", "assign"}
AliasProgram(kind, target) ==
  <<LetStmt("a", NumberLit(1))>>
  \o (CASE kind = "ident" -> <<LetStmt("b", Ident("a"))>>
        [] kind = "sum" -> <<LetStmt("b", BinOp(Ident("a"), "Add", NumberLit(0)))>>
        [] kind = "assign" -> <<LetStmt("b", NumberLit(0)), AssignStmt("b", Ident("a"))>>)
  \o <<AssignStmt(target, NumberLit(2)), EmitStmt(Ident("a")), EmitStmt(Ident("b"))>>

\* A name of the enclosing scope, a parameter, a local or `self` used in the
\* body of a function or of a method:
\*   let x = 5   fn f() { return x }   emit f()                         (fn)
\*   let x = 5   fn f() { x = 1  return 0 }   emit f()                  (assign)
\*   let x = 5   agent A { fn m() { return x } }   let a = A()  emit a.m()   (method)
\*   agent A { fn m() { return self } }   let a = A()  emit a.m()       (self)
\*   fn f(p) { return p }   emit f(5)                                   (param)
\*   fn f() { let y = 1  return y }   emit f()                          (local)
OuterKinds == {"fn", "assign", "method", "self", "param", "local"}
OuterProgram(kind) ==
  LET x == <<LetStmt("x", NumberLit(5))>>
      call == <<EmitStmt(FnCall("f", <<>>))>>
      agent(body) ==
        <<AgentDef("A", None, None, <<>>, <<FnDef("m", <<>>, body)>>),
          LetStmt("a", FnCall("A", <<>>)),
          EmitStmt(MethodCall(Ident("a"), "m", <<>>))>>
  IN CASE kind = "fn" ->
            x \o <<FnDef("f", <<>>, <<ReturnStmt(Some(Ident("x")))>>)>> \o call
       [] kind = "assign" ->
            x \o <<FnDef("f", <<>>, <<AssignStmt("x", NumberLit(1)),
                                      ReturnStmt(Some(NumberLit(0)))>>)>> \o call
       [] kind = "method" -> x \o agent(<<ReturnStmt(Some(Ident("x")))>>)
       [] kind = "self" -> agent(<<ReturnStmt(Some(Ident("self")))>>)
       [] kind = "param" ->
            <<FnDef("f", <<"p">>, <<ReturnStmt(Some(Ident("p")))>>),
              EmitStmt(FnCall("f", <<NumberLit(5)>>))>>
       [] kind = "local" ->
            <<FnDef("f", <<>>, <<LetStmt("y", NumberLit(1)),
                                ReturnStmt(Some(Ident("y")))>>)>> \o call

\* A declared name used as a value or as the target of an assignment:
\*   [let x = 5]   <declaration of n>   emit n  /  n = 1   [emit x]
NameUses == {"value", "assign"}
NameUseProgram(kind, use, with_local) ==
  (IF with_local THEN <<LetStmt("x", NumberLit(5))>> ELSE <<>>)
  \o <<Decl(kind),
       IF use = "value" THEN EmitStmt(Ident("n")) ELSE AssignStmt("n", NumberLit(1))>>
  \o (IF with_local THEN <<EmitStmt(Ident("x"))>> ELSE <<>>)

\* One `and` / `or` whose operands are literals or calls that leave a trace:
\*   fn g() { emit 1  return true|false }       fn f() { emit 2  return true|false }
\*   agent A { fn m() { emit 2  return false } }   let a = A()
\*   tool t { }
\*   emit <left> and|or <right>   emit 9
\* with <left> one of true, false, none, g() and <right> one of true, false,
\* f(), a.m(), t(), exec "hi".
LogicLefts == {"true", "false", "none", "callT", "callF"}
LogicRights == {"true", "false", "fnT", "fnF", "method", "tool", "exec"}
LogicProgram(op, left, right) ==
  LET traced(name, n, b) ==
        FnDef(name, <<>>, <<EmitStmt(NumberLit(n)), ReturnStmt(Some(BoolLit(b)))>>)
      l == CASE left = "true" -> BoolLit(TRUE)
             [] left = "false" -> BoolLit(FALSE)
             [] left = "none" -> NoneLit
             [] OTHER -> FnCall("g", <<>>)
      r == CASE right = "true" -> BoolLit(TRUE)
             [] right = "false" -> BoolLit(FALSE)
             [] right \in {"fnT", "fnF"} -> FnCall("f", <<>>)
             [] right = "method" -> MethodCall(Ident("a"), "m", <<>>)
             [] right = "tool" -> FnCall("t", <<>>)
             [] right = "exec" -> ExecBlock(StringLit("hi"))
  IN (IF left \in {"callT", "callF"} THEN <<traced("g", 1, left = "callT")>> ELSE <<>>)
     \o (CASE right \in {"fnT", "fnF"} -> <<traced("f", 2, right = "fnT")>>
           [] right = "method" ->
                <<AgentDef("A", None, None, <<>>, <<traced("m", 2, FALSE)>>),
                  LetStmt("a", FnCall("A", <<>>))>>
           [] right = "tool" -> <<ToolDef("t", None, <<>>)>>
           [] OTHER -> <<>>)
     \o <<EmitStmt(BinOp(l, op, r)), EmitStmt(NumberLit(9))>>

\* The fixed source programs
Programs ==
  << \* 1: the Counter scenario: 1 2 1 3 2
     <<Counter, LetStmt("a", FnCall("Counter", <<>>)),
       LetStmt("b", FnCall("Counter", <<>>)),
       Inc("a"), Inc("a"), Inc("b"), Inc("a"), Inc("b")>>,
     \* 2: self.x = 1 at top level
     <<FieldAssignStmt(Ident("self"), "x", NumberLit(1))>>,
     \* 3: emit self.x at top level
     <<EmitStmt(FieldAccess(Ident("self"), "x"))>>,
     \* 4: a plain function called from a method reads self.x
     <<Leaky, LetStmt("a", FnCall("Leaky", <<>>)),
       EmitStmt(MethodCall(Ident("a"), "peek", <<>>))>>,
     \* 5: a plain function called from a method writes self.x
     <<Leaky, LetStmt("a", FnCall("Leaky", <<>>)),
       EmitStmt(MethodCall(Ident("a"), "poke", <<>>))>>,
     \* 6: duplicate and non-literal memory defaults
     <<Dup, LetStmt("d", FnCall("Dup", <<>>)),
       EmitStmt(MethodCall(Ident("d"), "x", <<>>)),
       EmitStmt(MethodCall(Ident("d"), "y", <<>>))>>,
     \* 7: lists, strings, logic, unary operators
     <<LetStmt("xs", ListLit(<<NumberLit(1), NumberLit(2)>>)),
       ExprStmt(MethodCall(Ident("xs"), "push", <<NumberLit(3)>>)),
       EmitStmt(MethodCall(Ident("xs"), "len", <<>>)),
       EmitStmt(IndexAccess(Ident("xs"), NumberLit(2))),
       EmitStmt(IndexAccess(Ident("xs"), NumberLit(5))),
       EmitStmt(MethodCall(StringLit("ab"), "len", <<>>)),
       EmitStmt(BinOp(StringLit("a"), "Concat", NumberLit(1))),
       EmitStmt(BinOp(BoolLit(TRUE), "And", NoneLit)),
       EmitStmt(BinOp(NumberLit(0), "Or", StringLit("a"))),
       EmitStmt(UnaryOp("Not", NumberLit(0))),
       EmitStmt(UnaryOp("Neg", NumberLit(4))),
       EmitStmt(BinOp(NumberLit(1), "Neq", StringLit("a"))),
       EmitStmt(BinOp(NumberLit(8), "Div", NumberLit(2))),
       EmitStmt(BinOp(NumberLit(3), "Sub", StringLit("a")))>>,
     \* 8: an undefined name
     <<EmitStmt(Ident("nope"))>>,
     \* 9: a field of something that is not self
     <<LetStmt("a", NumberLit(1)), EmitStmt(FieldAccess(Ident("a"), "x"))>>,
     \* 10: send to / recv from something that is not a handle; method on a number
     <<LetStmt("a", NumberLit(1)), SendStmt(Ident("a"), NumberLit(2))>>,
     <<LetStmt("a", NumberLit(1)), EmitStmt(RecvExpr(Ident("a")))>>,
     <<LetStmt("a", NumberLit(1)), EmitStmt(MethodCall(Ident("a"), "f", <<>>))>>,
     \* 13: a method with arguments, and a method that does not exist
     <<Cell, LetStmt("a", FnCall("Cell", <<>>)), LetStmt("b", FnCall("Cell", <<>>)),
       LetStmt("pad", NumberLit(8)),
       EmitStmt(MethodCall(Ident("a"), "relay", <<Ident("b"), Ident("pad")>>)),
       EmitStmt(MethodCall(Ident("b"), "get", <<>>)),
       EmitStmt(MethodCall(Ident("a"), "missing", <<>>))>>,
     \* 14: return at top level with and without a value
     <<EmitStmt(NumberLit(1)), ReturnStmt(Some(NumberLit(2))), EmitStmt(NumberLit(3))>>,
     <<EmitStmt(NumberLit(1)), ReturnStmt(None), EmitStmt(NumberLit(3))>>,
     \* 16: a list shared by two variables and by a caller and its callee
     <<FnDef("grow", <<"l", "v">>,
         <<ExprStmt(MethodCall(Ident("l"), "push", <<Ident("v")>>)),
           ReturnStmt(Some(MethodCall(Ident("l"), "len", <<>>)))>>),
       LetStmt("xs", ListLit(<<NumberLit(10)>>)),
       LetStmt("ys", ListLit(<<>>)),
       AssignStmt("ys", Ident("xs")),
       EmitStmt(FnCall("grow", <<Ident("ys"), NumberLit(20)>>)),
       EmitStmt(MethodCall(Ident("xs"), "len", <<>>)),
       EmitStmt(IndexAccess(Ident("xs"), NumberLit(1))),
       ExprStmt(MethodCall(Ident("ys"), "push", <<NumberLit(30)>>)),
       EmitStmt(IndexAccess(Ident("xs"), NumberLit(2)))>>,
     \* 17: emit x
     <<EmitStmt(Ident("x"))>>,
     \* 18: emit foo()
     <<EmitStmt(FnCall("foo", <<>>))>>,
     \* 19: let a = [1]; emit 1 != "a"; emit a == a; emit a != a
     <<LetStmt("a", ListLit(<<NumberLit(1)>>)),
       EmitStmt(BinOp(NumberLit(1), "Neq", StringLit("a"))),
       EmitStmt(BinOp(Ident("a"), "Eq", Ident("a"))),
       EmitStmt(BinOp(Ident("a"), "Neq", Ident("a")))>>,
     \* 20: let xs = [10, 20]; emit xs[-1]; emit xs[2]
     <<LetStmt("xs", ListLit(<<NumberLit(10), NumberLit(20)>>)),
       EmitStmt(IndexAccess(Ident("xs"), UnaryOp("Neg", NumberLit(1)))),
       EmitStmt(IndexAccess(Ident("xs"), NumberLit(2)))>>,
     \* 21: a method the agent does not define
     <<Ghost, LetStmt("a", FnCall("Ghost", <<>>)), EmitStmt(NumberLit(0)),
       EmitStmt(MethodCall(Ident("a"), "nope", <<>>)), EmitStmt(NumberLit(9))>>,
     \* 22: a method reads a field the agent does not declare
     <<Ghost, LetStmt("a", FnCall("Ghost", <<>>)), EmitStmt(NumberLit(0)),
       EmitStmt(MethodCall(Ident("a"), "peek", <<>>)), EmitStmt(NumberLit(9))>>,
     \* 23: a method writes a field the agent does not declare, then reads it
     <<Ghost, LetStmt("a", FnCall("Ghost", <<>>)), EmitStmt(NumberLit(0)),
       EmitStmt(MethodCall(Ident("a"), "poke", <<>>)),
       EmitStmt(MethodCall(Ident("a"), "peek", <<>>)), EmitStmt(NumberLit(9))>>
  >>

\* A module with one function of 16 registers, as the VM's unit tests build it
make_module(constants, instructions) ==
  [constants |-> constants,
   functions |-> <<Function(0, 0, 16, instructions)>>,
   agents |-> <<>>, tools |-> <<>>, entry_function |-> 0]

RawConstants == <<CStr("x"), CNum(3), CStr("ab"), CNum(0), CNone, CBool(TRUE)>>
\* one descriptor: memory { x = 3 }, method "x" is function 1
RawAgent == AgentDescriptor(0, None, None, <<AgentMemoryField(0, Some(1))>>, <<<<0, 1>>>>)

\* A loop over a list (a map) of n entries whose body changes the container:
\*   r0 = [k1, .., kn] (or {k1: 0, .., kn: 0})   r10 = iter(r0)
\*   loop: r11 = next(r10)   emit r11   <change r0>
\*   emit len(r0)
\* with the change ListPush r0, r11 / r0[0] = 0 / r0["new"] = r11 / r0.remove(r11)
SnapConstants ==
  <<CStr("remove"), CStr("k1"), CStr("k2"), CStr("k3"), CStr("k4"), CNum(0),
    CStr("new")>>
SnapModule(kind, n, mut) ==
  LET loads == IF kind = "list" THEN [i \in 1..n |-> abx("LoadConst", i, i)]
               ELSE [i \in 1..(2 * n) |->
                       IF i % 2 = 1 THEN abx("LoadConst", i, (i + 1) \div 2)
                       ELSE abx("LoadConst", i, 5)]
      make == IF kind = "list" THEN abc("NewList", 0, 1, n) ELSE abc("NewMap", 0, 1, n)
      change ==
        CASE mut = "push" -> <<abc("ListPush", 0, 11, 0)>>
          [] mut = "set" -> <<abx("LoadConst", 12, 5), abc("IndexSet", 0, 12, 12)>>
          [] mut = "insert" -> <<abx("LoadConst", 12, 6), abc("IndexSet", 0, 12, 11)>>
          [] mut = "remove" ->
               <<abc("Move", 13, 0, 0), abc("Move", 14, 11, 0), abx("Call", 15, 65534),
                 abc("Nop", 0, 13, 2), abx("Nop", 0, 0)>>
      head == loads \o <<make, abc("IterInit", 10, 0, 0)>>
      top_of_loop == Len(head)
      body == <<op_a("Emit", 11)>> \o change
      back == top_of_loop + 2 + Len(body)
  IN make_module(SnapConstants,
       head \o <<asbx("IterNext", 11, back + 1 - top_of_loop - 2), abc("Nop", 0, 10, 0)>>
            \o body
            \o <<sbx("Jmp", top_of_loop - back - 1), abc("Len", 12, 0, 0),
                 op_a("Emit", 12), op_only("Halt")>>)
SnapKinds == {<<"list", "push">>, <<"list", "set">>, <<"map", "insert">>, <<"map", "remove">>}

\* A container in r0 and a copy of the register in r3:
\*   r0 = [0] (or {"k1": 0})   r3 = r0
\* then changes through r3 and reads through r0, each read emitted.
\*   list: push 7 / [0] = 7 / f(r3, 7) where f pushes / Len / [0] / .len()
\*   map: ["k2"] = 7 / .remove("k1") / g(r3, "k2") where g sets / Len / ["k1"] /
\*        .contains("k1")
ShareConstants ==
  <<CStr("k1"), CNum(0), CStr("k2"), CNum(7), CStr("remove"), CStr("contains"),
    CStr("len")>>
ShareOp(kind, op) ==
  LET method(result_reg, recv, arg, name_idx, n) ==
        <<abc("Move", 8, recv, 0), abc("Move", 9, arg, 0),
          abx("Call", result_reg, 65534), abc("Nop", 0, 8, n), abx("Nop", 0, name_idx)>>
      read(words) == words \o <<op_a("Emit", 6)>>
  IN CASE op = "push" -> <<abc("ListPush", 3, 5, 0)>>
       [] op = "set" -> <<abc("IndexSet", 3, 2, 5)>>
       [] op = "insert" -> <<abc("IndexSet", 3, 4, 5)>>
       [] op = "remove" -> method(10, 3, 1, 4, 2)
       [] op = "call" ->
            <<abc("Move", 8, 3, 0), abc("Move", 9, IF kind = "list" THEN 5 ELSE 4, 0),
              abx("Call", 10, IF kind = "list" THEN 1 ELSE 2), abc("Nop", 0, 8, 2)>>
       [] op = "len" -> read(<<abc("Len", 6, 0, 0)>>)
       [] op = "get" -> read(<<abc("IndexGet", 6, 0, IF kind = "list" THEN 2 ELSE 1)>>)
       [] op = "mlen" -> read(method(6, 0, 1, 6, 1))
       [] op = "contains" -> read(method(6, 0, 1, 5, 2))
RECURSIVE ShareCode(_, _)
ShareCode(kind, ops) ==
  IF ops = <<>> THEN <<op_only("Halt")>>
  ELSE ShareOp(kind, Head(ops)) \o ShareCode(kind, Tail(ops))
ShareModule(kind, ops) ==
  [constants |-> ShareConstants,
   functions |->
     <<Function(0, 0, 16,
         <<abx("LoadConst", 1, 0), abx("LoadConst", 2, 1),
           IF kind = "list" THEN abc("NewList", 0, 2, 1) ELSE abc("NewMap", 0, 1, 1),
           abc("Move", 3, 0, 0), abx("LoadConst", 4, 2), abx("LoadConst", 5, 3)>>
         \o ShareCode(kind, ops)),
       Function(0, 2, 2, <<abc("ListPush", 0, 1, 0), op_only("RetNone")>>),
       Function(0, 2, 2, <<abc("IndexSet", 0, 1, 1), op_only("RetNone")>>)>>,
   agents |-> <<>>, tools |-> <<>>, entry_function |-> 0]
ShareOps(kind) ==
  IF kind = "list" THEN {"push", "set", "call", "len", "get", "mlen"}
  ELSE {"insert", "remove", "call", "len", "get", "contains"}

\* Two operands in r0 and r1, compared by Eq into r2 and by Neq into r3:
\*   r0 = <first>   r1 = <second> (or r1 = r0)   emit r0 == r1   emit r0 != r1
\* The operands are made by the instructions that make such values; no
\* instruction of the VM makes a Value::Error.
EqKinds ==
  {"None", "True", "False", "Num3", "Num0", "NaN", "Inf", "StrX", "StrAb", "List", "Map",
   "AgentHandle", "Iterator"}
EqLoad(kind, r) ==
  CASE kind = "None" -> <<op_a("LoadNone", r)>>
    [] kind = "True" -> <<op_a("LoadTrue", r)>>
    [] kind = "False" -> <<op_a("LoadFalse", r)>>
    [] kind = "Num3" -> <<abx("LoadConst", r, 1)>>
    [] kind = "Num0" -> <<abx("LoadConst", r, 3)>>
    [] kind = "NaN" -> <<abx("LoadConst", 8, 3), abc("Div", r, 8, 8)>>
    [] kind = "Inf" -> <<abx("LoadConst", 8, 1), abx("LoadConst", 9, 3), abc("Div", r, 8, 9)>>
    [] kind = "StrX" -> <<abx("LoadConst", r, 0)>>
    [] kind = "StrAb" -> <<abx("LoadConst", r, 2)>>
    [] kind = "List" -> <<abx("LoadConst", 8, 3), abc("NewList", r, 8, 1)>>
    [] kind = "Map" -> <<abc("NewMap", r, 8, 0)>>
    [] kind = "AgentHandle" -> <<abx("Spawn", r, 0)>>
    [] kind = "Iterator" -> <<abc("NewList", 8, 8, 0), abc("IterInit", r, 8, 0)>>
    [] kind = "same" -> <<abc("Move", r, 0, 0)>>
EqModule(first, second) ==
  [constants |-> RawConstants,
   functions |->
     <<Function(0, 0, 16,
         EqLoad(first, 0) \o EqLoad(second, 1) \o
         <<abc("Eq", 2, 0, 1), abc("Neq", 3, 0, 1), op_a("Emit", 2), op_a("Emit", 3),
           op_only("Halt")>>),
       Function(0, 2, 2, <<abx("MStore", 1, 0), abx("MLoad", 0, 0), op_a("Ret", 0)>>)>>,
   agents |-> <<RawAgent>>, tools |-> <<>>, entry_function |-> 0]

\* Two operands in r0 and r1 and a string in r2, then one arithmetic or
\* comparison instruction into r2:
\*   r0 = <first>   r1 = <second>   r2 = "ab"   r2 = r0 <op> r1   emit r2
ArithKinds == {"None", "True", "Num3", "Num0", "StrX", "List", "AgentHandle"}
ArithModule(op, first, second) ==
  [constants |-> RawConstants,
   functions |->
     <<Function(0, 0, 16,
         EqLoad(first, 0) \o EqLoad(second, 1) \o
         <<abx("LoadConst", 2, 2), abc(op, 2, 0, 1), op_a("Emit", 2), op_only("Halt")>>),
       Function(0, 2, 2, <<abx("MStore", 1, 0), abx("MLoad", 0, 0), op_a("Ret", 0)>>)>>,
   agents |-> <<RawAgent>>, tools |-> <<>>, entry_function |-> 0]

\* A list of n numbers in r0, an index in r1, 7 in r2 and "ab" in r3, then
\*   r3 = r0[r1]   emit r3            (get)
\*   r0[r1] = r2   emit r0[0]         (set)
IndexConstants ==
  <<CNum(10), CNum(20), CNum(0), CNum(1), CNum(2), CNum(3), CNum(-1), CNum(-5), CNum(7),
    CStr("ab")>>
IndexKinds ==
  {"-5", "-1", "0", "1", "2", "3", "NaN", "inf", "-inf", "1/2", "3/2", "-1/2"}
IndexLoad(kind) ==
  LET quotient(x, y) == <<abx("LoadConst", 8, x), abx("LoadConst", 9, y), abc("Div", 1, 8, 9)>>
  IN CASE kind = "-5" -> <<abx("LoadConst", 1, 7)>>
       [] kind = "-1" -> <<abx("LoadConst", 1, 6)>>
       [] kind = "0" -> <<abx("LoadConst", 1, 2)>>
       [] kind = "1" -> <<abx("LoadConst", 1, 3)>>
       [] kind = "2" -> <<abx("LoadConst", 1, 4)>>
       [] kind = "3" -> <<abx("LoadConst", 1, 5)>>
       [] kind = "NaN" -> quotient(2, 2)
       [] kind = "inf" -> quotient(3, 2)
       [] kind = "-inf" -> quotient(6, 2)
       [] kind = "1/2" -> quotient(3, 4)
       [] kind = "3/2" -> quotient(5, 4)
       [] kind = "-1/2" -> quotient(6, 4)
IndexModule(n, kind, op) ==
  make_module(IndexConstants,
    [i \in 1..n |-> abx("LoadConst", 3 + i, i - 1)]
    \o <<abc("NewList", 0, 4, n)>>
    \o IndexLoad(kind)
    \o <<abx("LoadConst", 2, 8), abx("LoadConst", 3, 9)>>
    \o (IF op = "get" THEN <<abc("IndexGet", 3, 0, 1), op_a("Emit", 3)>>
        ELSE <<abc("IndexSet", 0, 1, 2), abx("LoadConst", 1, 2), abc("IndexGet", 3, 0, 1),
               op_a("Emit", 3)>>)
    \o <<op_only("Halt")>>)

\* One method call on a receiver of each kind, next to an agent whose
\* descriptor defines the method "x":
\*   r7 = spawn   r4 = [3] / {"k1": 3, "k2": "ab"} / "ab" / r7
\*   r6 = r4.<name>("k1")  (n - 1 arguments)   emit r6   emit len(r4)
BuiltinConstants ==
  <<CStr("x"), CNum(3), CStr("k1"), CStr("k2"), CStr("ab"), CStr("push"), CStr("len"),
    CStr("keys"), CStr("values"), CStr("contains"), CStr("remove")>>
BuiltinKinds == {"list", "map", "str", "agent"}
BuiltinNames == {"push", "len", "keys", "values", "contains", "remove", "x"}
BuiltinModule(kind, name, n) ==
  LET name_idx == (CHOOSE i \in 1..Len(BuiltinConstants) :
                     BuiltinConstants[i] = CStr(name)) - 1
      receiver == CASE kind = "list" -> <<abc("NewList", 4, 1, 1)>>
                    [] kind = "map" -> <<abc("NewMap", 4, 0, 2)>>
                    [] kind = "str" -> <<abx("LoadConst", 4, 4)>>
                    [] kind = "agent" -> <<abc("Move", 4, 7, 0)>>
  IN [constants |-> BuiltinConstants,
      functions |->
        <<Function(0, 0, 16,
            <<abx("Spawn", 7, 0), abx("LoadConst", 0, 2), abx("LoadConst", 1, 1),
              abx("LoadConst", 2, 3), abx("LoadConst", 3, 4)>>
            \o receiver
            \o <<op_a("LoadTrue", 6), abc("Move", 8, 4, 0), abc("Move", 9, 0, 0),
                 abx("Call", 6, 65534), abc("Nop", 0, 8, n), abx("Nop", 0, name_idx),
                 op_a("Emit", 6)>>
            \o (IF kind = "agent" THEN <<>> ELSE <<abc("Len", 5, 4, 0), op_a("Emit", 5)>>)
            \o <<op_only("Halt")>>),
          Function(0, 1, 2, <<abx("MLoad", 1, 0), op_a("Ret", 1)>>)>>,
      agents |-> <<RawAgent>>, tools |-> <<>>, entry_function |-> 0]

\* The fixed hand-built modules
Modules ==
  << \* 1: Nop, LoadConst, Emit, Halt
     make_module(RawConstants,
       <<op_only("Nop"), abx("LoadConst", 0, 2), op_a("Emit", 0), op_only("Halt")>>),
     \* 2, 3: MStore / MLoad in the entry frame, after a Spawn
     [make_module(RawConstants,
        <<abx("Spawn", 1, 0), abx("LoadConst", 0, 2), abx("MStore", 0, 0),
          op_only("Halt")>>) EXCEPT !.agents = <<RawAgent>>],
     [make_module(RawConstants,
        <<abx("Spawn", 1, 0), abx("MLoad", 0, 0), op_only("Halt")>>)
        EXCEPT !.agents = <<RawAgent>>],
     \* 4, 5: MLoad / MStore whose Bx is not a string constant, or no constant
     make_module(RawConstants, <<abx("MLoad", 0, 1), op_only("Halt")>>),
     make_module(RawConstants, <<abx("MStore", 0, 9), op_only("Halt")>>),
     \* 6: MStore of a register beyond the frame
     make_module(RawConstants, <<abx("MStore", 20, 0), op_only("Halt")>>),
     \* 7: the container opcodes the compiler does not emit, and JmpTrue
     make_module(RawConstants,
       <<abc("NewList", 0, 1, 0), abx("LoadConst", 1, 2), abc("ListPush", 0, 1, 0),
         abc("Len", 2, 0, 0), abc("StrLen", 3, 1, 0), abx("LoadConst", 4, 3),
         abc("IndexSet", 0, 4, 2), abc("IndexGet", 5, 0, 4),
         asbx("JmpTrue", 2, 1), op_a("Emit", 1), op_a("Emit", 5),
         abc("Len", 6, 1, 0), op_a("Emit", 6),
         abc("IndexSet", 0, 2, 2), op_only("Halt")>>),
     \* 8: a byte that is no opcode
     make_module(RawConstants, <<op_only("Nop"), <<255, 0, 0, 0>>>>),
     \* 9: an opcode without an arm
     make_module(RawConstants, <<abx("GLoad", 0, 0), op_only("Halt")>>),
     \* 10: Call of a function that does not exist
     make_module(RawConstants,
       <<abx("Call", 0, 5), abc("Nop", 0, 0, 0), op_only("Halt")>>),
     \* 11: Call as the last word of the function
     make_module(RawConstants, <<abx("Call", 0, 0)>>),
     \* 12: a callee with fewer registers than arguments, a far result register
     [constants |-> RawConstants,
      functions |->
        <<Function(0, 0, 4,
            <<abx("LoadConst", 1, 1), abx("LoadConst", 2, 2), op_a("LoadTrue", 3),
              abx("Call", 20, 1), abc("Nop", 0, 1, 3), op_a("Emit", 20),
              abx("Call", 2, 2), abc("Nop", 0, 1, 0), op_a("Emit", 2)>>),
          Function(0, 3, 1, <<op_a("Ret", 2)>>),
          Function(0, 0, 0, <<op_only("RetNone")>>)>>,
      agents |-> <<>>, tools |-> <<>>, entry_function |-> 0],
     \* 13: a backward jump before the start of the function
     make_module(RawConstants, <<op_a("LoadNone", 0), sbx("Jmp", -5), op_a("Emit", 0)>>),
     \* 14: IterNext on a register that holds no iterator
     make_module(RawConstants,
       <<asbx("IterNext", 0, 1), abc("Nop", 0, 3, 0), op_only("Halt")>>),
     \* 15: Spawn of a descriptor that does not exist
     make_module(RawConstants, <<abx("Spawn", 0, 3), op_only("Halt")>>),
     \* 16: a method call resolved through the descriptor, three words
     [constants |-> RawConstants,
      functions |->
        <<Function(0, 0, 8,
            <<abx("Spawn", 3, 0), abx("LoadConst", 4, 2), abx("LoadConst", 5, 1),
              abx("Call", 7, 65534), abc("Nop", 0, 3, 3), abx("Nop", 0, 0),
              op_a("Emit", 7), op_only("Halt")>>),
          Function(0, 2, 2, <<abx("MStore", 1, 0), abx("MLoad", 0, 0), op_a("Ret", 0)>>)>>,
      agents |-> <<RawAgent>>, tools |-> <<>>, entry_function |-> 0],
     \* 17: Log at level 2, then Emit of the same register
     make_module(RawConstants,
       <<abx("LoadConst", 0, 2), abc("Log", 0, 2, 0), op_a("Emit", 0), op_only("Halt")>>),
     \* 18: TCall of a descriptor that does not exist
     make_module(RawConstants,
       <<abx("TCall", 0, 3), abc("Nop", 0, 0, 0), op_only("Halt")>>),
     \* 19: TCall whose descriptor names more parameters than there are registers
     [make_module(RawConstants,
        <<abx("LoadConst", 15, 2), abx("TCall", 0, 0), abc("Nop", 0, 15, 2),
          op_only("Halt")>>)
        EXCEPT !.tools = <<ToolDescriptor(0, None, <<ToolParamDescriptor(2, None),
                                                     ToolParamDescriptor(1, None)>>)>>],
     \* 20: a callee that ends without Ret, and one that ends with RetNone
     [constants |-> RawConstants,
      functions |->
        <<Function(0, 0, 4,
            <<abx("LoadConst", 2, 2), abx("LoadConst", 3, 2),
              abx("Call", 2, 1), abc("Nop", 0, 0, 0), op_a("Emit", 2),
              abx("Call", 3, 2), abc("Nop", 0, 0, 0), op_a("Emit", 3),
              op_only("Halt")>>),
          Function(0, 0, 1, <<op_a("LoadTrue", 0)>>),
          Function(0, 0, 0, <<op_only("RetNone")>>)>>,
      agents |-> <<>>, tools |-> <<>>, entry_function |-> 0],
     \* 21: one function activated twice; it reads r1 before it writes it
     [constants |-> RawConstants,
      functions |->
        <<Function(0, 0, 4,
            <<abx("LoadConst", 1, 1), abx("Call", 0, 1), abc("Nop", 0, 1, 1),
              op_a("Emit", 0), abx("LoadConst", 1, 2),
              abx("Call", 2, 1), abc("Nop", 0, 1, 1), op_a("Emit", 2),
              op_a("Emit", 1), op_only("Halt")>>),
          Function(0, 1, 3,
            <<op_a("Emit", 1), abc("Move", 1, 0, 0), op_a("LoadTrue", 2),
              op_a("Ret", 1)>>)>>,
      agents |-> <<>>, tools |-> <<>>, entry_function |-> 0],
     \* 22: a map of two entries in a string: emit "ab" ++ {"x": 3, "ab": 0}
     make_module(RawConstants,
       <<abx("LoadConst", 0, 0), abx("LoadConst", 1, 1), abx("LoadConst", 2, 2),
         abx("LoadConst", 3, 3), abc("NewMap", 4, 0, 2), abc("Concat", 5, 2, 4),
         op_a("Emit", 5), op_only("Halt")>>)
  >>

(***************************************************************************)
(* Init, the pipeline steps and Next.                                      *)
(***************************************************************************)
\* A source text given to cmd_exec: what the lexer and the parser make of it
\* (lexer errors, parse errors, or the program)
TextOutcomes == {"lex errors", "parse errors", "program"}

Inputs ==
  {<<"mail", ops>> : ops \in SeqsUpTo(MailOps, MaxMailOps)} \cup
  {<<"memory", ops>> : ops \in SeqsUpTo(MemOps, MaxMemOps)} \cup
  {<<"for", <<n, inner>>>> : n \in 0..MaxListLen, inner \in ForInners} \cup
  {<<"while", <<n, inner>>>> : n \in 0..MaxLoop, inner \in WhileInners} \cup
  {<<"if", <<c, d, e>>>> : c \in 1..Len(Conds), d \in 0..Len(Conds), e \in ElseKinds} \cup
  {<<"call", <<n, k>>>> : n \in 0..MaxArgs, k \in 0..MaxArgs} \cup
  {<<"source", <<i>>>> : i \in 1..Len(Programs)} \cup
  {<<"ast", <<i>>>> : i \in 1..Len(Programs)} \cup
  {<<"module", <<i>>>> : i \in 1..Len(Modules)} \cup
  {<<"snap", <<n, mut>>>> : n \in 0..MaxListLen, mut \in SnapMuts} \cup
  {<<"snapmod", <<k[1], n, k[2]>>>> : k \in SnapKinds, n \in 0..MaxListLen} \cup
  {<<"list", kinds>> : kinds \in SeqsUpTo(ElemKinds, MaxElems)} \cup
  UNION {{<<"tool", <<h, defaults, k>>>> : k \in 0..(Len(defaults) + 1), h \in Hosts} :
         defaults \in SeqsUpTo(BOOLEAN, MaxParams)} \cup
  {<<"exec", <<h, kind>>>> : h \in Hosts, kind \in ExecKinds} \cup
  {<<"actor", ops>> : ops \in SeqsUpTo(ActorOps, MaxActorOps)} \cup
  {<<"index", <<n, kind, op>>>> :
     n \in 0..MaxIndexLen, kind \in IndexKinds, op \in {"get", "set"}} \cup
  {<<"logic", <<op, left, right>>>> :
     op \in LogicOps, left \in LogicLefts, right \in LogicRights} \cup
  {<<"arith", <<op, first, second>>>> :
     op \in ArithOps \cup CmpOps, first \in ArithKinds, second \in ArithKinds} \cup
  {<<"arith", <<"Neg", first, "None">>>> : first \in ArithKinds} \cup
  {<<"eq", <<first, second>>>> : first \in EqKinds, second \in EqKinds \cup {"same"}} \cup
  {<<"names", decls>> : decls \in SeqsUpTo(DeclKinds, MaxDecls)} \cup
  {<<"builtin", <<kind, name, n>>>> :
     kind \in BuiltinKinds, name \in BuiltinNames, n \in 1..2} \cup
  {<<"alias", <<kind, target>>>> : kind \in AliasKinds, target \in {"a", "b"}} \cup
  {<<"outer", <<kind>>>> : kind \in OuterKinds} \cup
  {<<"scope", <<kind, callee, inner, outer>>>> :
     kind \in ScopeKinds, callee \in ScopeCallees, inner \in BOOLEAN,
     outer \in ScopeOuters} \cup
  {<<"text", <<i, outcome>>>> : i \in 1..Len(Programs), outcome \in TextOutcomes} \cup
  {<<"nameuse", <<kind, use, with_local>>>> :
     kind \in DeclKinds, use \in NameUses, with_local \in BOOLEAN} \cup
  UNION {{<<"share", <<kind, ops>>>> : ops \in SeqsUpTo(ShareOps(kind), MaxShareOps)} :
         kind \in {"list", "map"}}

\* The module of an input that is handed to VM::new as a module
IsModule(in) ==
  in[1] \in {"module", "snapmod", "share", "eq", "arith", "index", "builtin"}
ModuleOf(in) ==
  CASE in[1] = "module" -> Modules[in[2][1]]
    [] in[1] = "snapmod" -> SnapModule(in[2][1], in[2][2], in[2][3])
    [] in[1] = "share" -> ShareModule(in[2][1], in[2][2])
    [] in[1] = "eq" -> EqModule(in[2][1], in[2][2])
    [] in[1] = "arith" -> ArithModule(in[2][1], in[2][2], in[2][3])
    [] in[1] = "index" -> IndexModule(in[2][1], in[2][2], in[2][3])
    [] in[1] = "builtin" -> BuiltinModule(in[2][1], in[2][2], in[2][3])

\* The parsed program of a source input
Program(in) ==
  CASE in[1] = "mail" -> MailProgram(in[2])
    [] in[1] = "memory" -> MemProgram(in[2])
    [] in[1] = "for" -> ForProgram(in[2][1], in[2][2])
    [] in[1] = "while" -> WhileProgram(in[2][1], in[2][2])
    [] in[1] = "if" -> IfProgram(in[2][1], in[2][2], in[2][3])
    [] in[1] = "call" -> CallProgram(in[2][1], IF in[2][2] > in[2][1] THEN 0 ELSE in[2][2])
    [] in[1] \in {"source", "ast", "text"} -> Programs[in[2][1]]
    [] in[1] = "snap" -> SnapProgram(in[2][1], in[2][2])
    [] in[1] = "list" -> ListProgram(in[2])
    [] in[1] = "tool" -> ToolProgram(in[2][2], in[2][3])
    [] in[1] = "exec" -> ExecProgram(in[2][2])
    [] in[1] = "actor" -> ActorProgram(in[2])
    [] in[1] = "logic" -> LogicProgram(in[2][1], in[2][2], in[2][3])
    [] in[1] = "names" -> NamesProgram(in[2])
    [] in[1] = "nameuse" -> NameUseProgram(in[2][1], in[2][2], in[2][3])
    [] in[1] = "scope" -> ScopeProgram(in[2][1], in[2][2], in[2][3], in[2][4])
    [] in[1] = "alias" -> AliasProgram(in[2][1], in[2][2])
    [] in[1] = "outer" -> OuterProgram(in[2][1])

\* VM::new(module) alone, or with .with_host(host)
HostOf(in) ==
  CASE in[1] \in {"tool", "exec"} -> in[2][1]
    [] in[1] \in {"names", "text", "logic", "scope"} -> "EchoHost"
    [] OTHER -> "NoHost"

\* A source input starts at the resolver; an "ast" input is handed straight
\* to Compiler::compile, and so are a mail and a tool input (resolver.rs has
\* no arms for send, recv and tool); a module input is handed to VM::new
Init ==
  /\ input \in Inputs
  /\ stage = CASE IsModule(input) -> "compiled"
               [] input[1] \in {"ast", "mail", "tool", "names", "logic", "actor", "scope"} -> "resolved"
               [] input[1] = "nameuse" /\ input[2][1] = "tool" -> "resolved"
               [] input[1] = "text" -> "source"
               [] OTHER -> "parsed"
  /\ error = <<>>
  /\ module = IF IsModule(input) THEN ModuleOf(input) ELSE NewModule
  /\ call_stack = NewVM.call_stack
  /\ agents = NewVM.agents
  /\ next_agent_id = NewVM.next_agent_id
  /\ outputs = NewVM.outputs
  /\ heap = NewVM.heap
  /\ mail_events = NewVM.mail_events
  /\ host = with_host(NewVM, HostOf(input)).host
  /\ host_calls = NewVM.host_calls
  /\ sink = NewVM.sink

\* cmd_exec: Lexer::new(&source).tokenize(); lexer errors end the run
Lex ==
  /\ stage = "source"
  /\ IF input[2][2] = "lex errors"
     THEN stage' = "done" /\ error' = <<"Lexer", "lexer errors">>
     ELSE stage' = "lexed" /\ error' = error
  /\ UNCHANGED <<input, module, call_stack, agents, next_agent_id, outputs, heap,
                 mail_events, host, host_calls, sink>>

\* cmd_exec: Parser::new(tokens).parse(); parse errors end the run
Parse ==
  /\ stage = "lexed"
  /\ IF input[2][2] = "parse errors"
     THEN stage' = "done" /\ error' = <<"Parse", "parse errors">>
     ELSE stage' = "parsed" /\ error' = error
  /\ UNCHANGED <<input, module, call_stack, agents, next_agent_id, outputs, heap,
                 mail_events, host, host_calls, sink>>

\* A resolver whose errors do not end the run
Resolve_ignoring_errors ==
  /\ stage = "parsed"
  /\ stage' = "resolved" /\ error' = error
  /\ UNCHANGED <<input, module, call_stack, agents, next_agent_id, outputs, heap,
                 mail_events, host, host_calls, sink>>

\* agentus_sema::resolver::resolve(&program).map_err(|errs| errs.join("; "))?
Resolve ==
  /\ stage = "parsed"
  /\ LET errs == resolve(Program(input))
     IN IF errs = <<>> THEN stage' = "resolved" /\ error' = error
        ELSE stage' = "done" /\ error' = <<"Semantic", join(errs, "; ")>>
  /\ UNCHANGED <<input, module, call_stack, agents, next_agent_id, outputs, heap,
                 mail_events, host, host_calls, sink>>

\* Compiler::new().compile(&program)
Compile ==
  /\ stage = "resolved"
  /\ LET r == Compiler_compile(Program(input))
     IN IF IsSome(r.err)
        THEN stage' = "done" /\ error' = <<"Codegen", Unwrap(r.err)>> /\ module' = module
        ELSE stage' = "compiled" /\ error' = error /\ module' = r.module
  /\ UNCHANGED <<input, call_stack, agents, next_agent_id, outputs, heap, mail_events,
                 host, host_calls, sink>>

\* VM::run: push the entry frame, then execute()
Run ==
  /\ stage = "compiled"
  /\ Commit(push_frame(CurVM, module, module.entry_function, None))

Next ==
  \/ Lex \/ Parse \/ Resolve \/ Compile \/ Run \/ Finish \/ FallThrough \/ InvalidOpcode
  \/ NotImplemented \/ OpNop \/ OpHalt \/ OpLoadConst \/ OpLoadImm \/ OpMove
  \/ OpArith \/ OpNeg \/ OpEq \/ OpCmp \/ OpLogic \/ OpNot \/ OpConcat \/ OpJmp
  \/ OpJmpCond \/ OpEmit \/ OpCallMethod \/ OpCallFunction \/ OpRet \/ OpRetNone
  \/ OpNewList \/ OpNewMap \/ OpIndexGet \/ OpIndexSet \/ OpLen \/ OpListPush \/ OpStrLen
  \/ OpIterInit \/ OpIterNext \/ OpMLoad \/ OpMStore \/ OpSpawn \/ OpSend \/ OpRecv
  \/ OpLog \/ OpExec \/ OpTCall

Spec == Init /\ [][Next]_vars

\* Type and shape of the state
TypeOK ==
  /\ stage \in {"source", "lexed", "parsed", "resolved", "compiled", "running", "done"}
  /\ next_agent_id \in Nat
  /\ \A d \in 1..Len(call_stack) : call_stack[d].pc \in Nat

(***************************************************************************)
(* The properties.                                                         *)
(***************************************************************************)
RECURSIVE FifoReplay(_, _)
\* The events of one agent replayed against a queue: every recv returned the
\* oldest value sent and not yet received, or None when there was none.
FifoReplay(events, queue) ==
  IF events = <<>> THEN TRUE
  ELSE LET ev == Head(events)
       IN IF ev[1] = "send" THEN FifoReplay(Tail(events), Append(queue, ev[2]))
          ELSE /\ ev[2] = (IF queue = <<>> THEN VNone ELSE Head(queue))
               /\ FifoReplay(Tail(events), IF queue = <<>> THEN queue ELSE Tail(queue))

RECURSIVE Unreceived(_, _)
\* The values sent and not yet received, oldest first
Unreceived(events, queue) ==
  IF events = <<>> THEN queue
  ELSE Unreceived(Tail(events),
                  IF Head(events)[1] = "send" THEN Append(queue, Head(events)[2])
                  ELSE IF queue = <<>> THEN queue ELSE Tail(queue))

C1_DrainedWitness ==
  \E h \in DOMAIN mail_events :
    mail_events[h] = <<<<"send", VNum(1)>>, <<"recv", VNum(1)>>, <<"recv", VNone>>>>


\* The frame that executes the step, and what the step is about
Frame == call_stack[Len(call_stack)]
Executes(ops) == Dispatching(ops)
Succeeds == stage' = "running"
FieldOf(inst) == module.constants[inst_bx(inst) + 1].s
Stored(memory, f) == IF f \in DOMAIN memory THEN memory[f] ELSE VNone

\* MStore of field f <- r(A) in a frame owned by h: only memory[f] of h changes
C2_Store ==
  \A h \in DOMAIN agents :
    (Executes({"MStore"}) /\ Frame.agent_id = Some(h) /\ Succeeds) =>
      /\ DOMAIN agents' = DOMAIN agents
      /\ \A g \in DOMAIN agents : agents'[g].mailbox = agents[g].mailbox
      /\ \A g \in DOMAIN agents \ {h} : agents'[g].memory = agents[g].memory
      /\ LET f == FieldOf(cur_inst)
         IN /\ DOMAIN agents'[h].memory = DOMAIN agents[h].memory \cup {f}
            /\ agents'[h].memory[f] = Frame.registers[inst_a(cur_inst) + 1]
            /\ \A k \in DOMAIN agents[h].memory \ {f} :
                 agents'[h].memory[k] = agents[h].memory[k]

\* Nothing but a successful MStore changes the memory of a live agent
C2_Persist ==
  ~(Executes({"MStore"}) /\ Succeeds) =>
      \A g \in DOMAIN agents :
        g \in DOMAIN agents' /\ agents'[g].memory = agents[g].memory

\* MLoad of field f in a frame owned by h reads memory[f] of h
C2_Load ==
  \A h \in DOMAIN agents :
    (Executes({"MLoad"}) /\ Frame.agent_id = Some(h) /\ Succeeds) =>
      call_stack'[Len(call_stack)].registers[inst_a(cur_inst) + 1] =
        Stored(agents[h].memory, FieldOf(cur_inst))

RECURSIVE CellCounts(_, _, _)
\* The count of each Cell after the first i operations of a memory input
CellCounts(ops, i, counts) ==
  IF i = 0 THEN counts
  ELSE LET before == CellCounts(ops, i - 1, counts)
       IN CASE ops[i][1] = "set" -> [before EXCEPT ![ops[i][2]] = i]
            [] ops[i][1] = "relay" -> [before EXCEPT ![Other(ops[i][2])] = i]
            [] OTHER -> before

RECURSIVE CellOutputs(_, _)
\* What the first i operations of a memory input emit: each get and relay
\* emits the count last stored for its receiver
CellOutputs(ops, i) ==
  IF i = 0 THEN <<>>
  ELSE CellOutputs(ops, i - 1) \o
       (IF ops[i][1] = "set" THEN <<>>
        ELSE <<VNum(CellCounts(ops, i - 1, [n \in {"a", "b"} |-> 0])[ops[i][2]])>>)

C2_Reads ==
  (stage = "done" /\ input[1] = "memory") =>
     /\ error = <<>>
     /\ outputs = CellOutputs(input[2], Len(input[2]))

\* C2: agent memory is per instance and persistent.  An MStore executed in a
\* frame whose agent_id is h changes only the stored field of agent h: the
\* memory of every other agent and every mailbox are unchanged.  No other
\* instruction changes an agent's memory, so every later MLoad of the field
\* in a frame owned by h returns the value last stored, whatever method
\* calls on h or on other agents come in between.
C2_MemoryPerInstance ==
  []C2_Reads /\ [][C2_Store /\ C2_Persist /\ C2_Load]_vars

\* C2 witness: both agents were stored to, the first agent before the second,
\* and a later read of the first agent has returned its own value.
C2_Witness ==
  /\ stage = "done"
  /\ input = <<"memory", <<<<"set", "a">>, <<"relay", "a">>, <<"get", "a">>>>>>
  /\ outputs = <<VNum(1), VNum(1)>>
  /\ agents[1].memory["count"] = VNum(1)
  /\ agents[2].memory["count"] = VNum(2)

\* Spawn takes the counter's value as the new id and adds that one agent
C3_Spawn ==
  (Executes({"Spawn"}) /\ Succeeds) =>
    /\ next_agent_id \notin DOMAIN agents
    /\ next_agent_id' = next_agent_id + 1
    /\ DOMAIN agents' = DOMAIN agents \cup {next_agent_id}
    /\ call_stack'[Len(call_stack)].registers[inst_a(cur_inst) + 1] =
         VAgentHandle(next_agent_id)

\* No other step changes the counter or the set of agents
C3_Others ==
  /\ next_agent_id' >= next_agent_id
  /\ ~(Executes({"Spawn"}) /\ Succeeds) =>
       next_agent_id' = next_agent_id /\ DOMAIN agents' = DOMAIN agents

C3_Keys == next_agent_id >= 1 /\ DOMAIN agents = 1..(next_agent_id - 1)

\* C3: agent handles are unique and never reused.  next_agent_id starts at 1
\* and never decreases; every Spawn returns AgentHandle(id) with id the value
\* of the counter before the Spawn, an id no agent has yet; and in every
\* reachable state the keys of the agent table are exactly
\* 1 .. next_agent_id - 1.
C3_HandlesUnique ==
  next_agent_id = 1 /\ []C3_Keys /\ [][C3_Spawn /\ C3_Others]_vars

\* C3 witness: two Spawns have returned the handles 1 and 2
C3_Witness ==
  /\ Running
  /\ next_agent_id = 3
  /\ DOMAIN agents = {1, 2}
  /\ \E i, j \in 1..Len(Frame.registers) :
       Frame.registers[i] = VAgentHandle(1) /\ Frame.registers[j] = VAgentHandle(2)


\* The descriptor a Spawn instruction names, and its i-th declared field
SpawnedDescriptor == module.agents[inst_bx(cur_inst) + 1]
DeclName(d, i) == module.constants[d.memory_fields[i].name_idx + 1].s
DeclDefault(d, i) ==
  IF IsSome(d.memory_fields[i].default_idx)
  THEN LET c == module.constants[Unwrap(d.memory_fields[i].default_idx) + 1]
       IN CASE c.t = "None" -> VNone
            [] c.t = "Bool" -> VBool(c.n = 1)
            [] c.t = "Num" -> VNum(c.n)
            [] c.t = "Str" -> VStr(c.s)
  ELSE VNone
Decls(d) == 1..Len(d.memory_fields)
LastDecl(d, i) == \A j \in Decls(d) : j > i => DeclName(d, j) # DeclName(d, i)

\* The agent a successful Spawn has just created
Spawned == agents'[next_agent_id]

C4_EveryDeclaration ==
  (Executes({"Spawn"}) /\ Succeeds) =>
    LET d == SpawnedDescriptor
    IN /\ Spawned.mailbox = <<>>
       /\ DOMAIN Spawned.memory = {DeclName(d, i) : i \in Decls(d)}
       /\ \A i \in Decls(d) : Spawned.memory[DeclName(d, i)] = DeclDefault(d, i)

C4_LastDeclaration ==
  (Executes({"Spawn"}) /\ Succeeds) =>
    LET d == SpawnedDescriptor
    IN /\ Spawned.descriptor_idx = inst_bx(cur_inst)
       /\ Spawned.mailbox = <<>>
       /\ DOMAIN Spawned.memory = {DeclName(d, i) : i \in Decls(d)}
       /\ \A i \in Decls(d) :
            LastDecl(d, i) => Spawned.memory[DeclName(d, i)] = DeclDefault(d, i)

\* C4, as stated: immediately after every Spawn of descriptor d the new
\* agent's memory holds exactly the fields declared in d, each declaration
\* with its declared default constant (None without a default), and the
\* mailbox is empty.
C4_AsStated == [][C4_EveryDeclaration]_vars

\* C4: immediately after every Spawn of descriptor d the new agent's memory
\* holds exactly the field names declared in d, each name with the default
\* constant of its last declaration in d (None when that declaration has no
\* default), and the mailbox is empty.
C4_SpawnMemory == [][C4_LastDeclaration]_vars

\* C4 witness: the agent spawned from
\* memory { x = 1, y, x = 2, z = -1, w = "hello", v = true }
C4_Witness ==
  /\ input = <<"source", <<6>>>>
  /\ 1 \in DOMAIN agents
  /\ agents[1].mailbox = <<>>
  /\ DOMAIN agents[1].memory = {"x", "y", "z", "w", "v"}
  /\ agents[1].memory["x"] = VNum(2)
  /\ agents[1].memory["y"] = VNone
  /\ agents[1].memory["w"] = VStr("hello")
  /\ agents[1].memory["v"] = VBool(TRUE)


\* The words of the function a frame runs, and the word at a zero-based pc
CodeOf(frame) == module.functions[frame.function_idx + 1].instructions
WordOf(frame, pc) == CodeOf(frame)[pc + 1]
IsCallWord(frame, pc) ==
  /\ pc >= 0 /\ pc < Len(CodeOf(frame))
  /\ opcode(WordOf(frame, pc)) = Some("Call")
Callee == call_stack'[Len(call_stack) + 1]
Below(stack, d) == SubSeq(stack, 1, d - 1)

\* The step pushes one frame on the stack for function f with the arguments
\* r(from) .. r(from + n - 1) of the caller, and parks the caller `words`
\* words after the Call word
PushesFrame(f, owner, from, n, words) ==
  LET d == Len(call_stack)
  IN /\ Len(call_stack') = d + 1
     /\ Below(call_stack', d) = Below(call_stack, d)
     /\ call_stack'[d] = [Frame EXCEPT !.pc = Frame.pc + words]
     /\ Callee.function_idx = f
     /\ Callee.agent_id = owner
     /\ Callee.pc = 0
     /\ Callee.return_info =
          Some(<<Frame.function_idx, Frame.pc + words, inst_a(cur_inst)>>)
     /\ \A i \in 0..(n - 1) : Callee.registers[i + 1] = Frame.registers[from + i + 1]
     /\ \A i \in 1..Len(Callee.registers) : i > n => Callee.registers[i] = VNone

\* A frame pushed by a Call returns: it is popped, its caller gets the value
\* in the result register and goes on where it was parked
ReturnsToCaller ==
  (Executes({"Ret", "RetNone"}) /\ Succeeds /\ IsSome(Frame.return_info)) =>
    LET d == Len(call_stack)
        caller == call_stack[d - 1]
        result_reg == Unwrap(Frame.return_info)[3]
        value == IF cur_op = "Ret" THEN Frame.registers[inst_a(cur_inst) + 1] ELSE VNone
    IN /\ Len(call_stack') = d - 1
       /\ Below(call_stack', d - 1) = Below(call_stack, d - 1)
       /\ call_stack'[d - 1].pc = caller.pc
       /\ call_stack'[d - 1].function_idx = caller.function_idx
       /\ call_stack'[d - 1].agent_id = caller.agent_id
       /\ call_stack'[d - 1].return_info = caller.return_info
       /\ call_stack'[d - 1].registers[result_reg + 1] = value
       /\ \A i \in 1..Len(caller.registers) :
            i # result_reg + 1 => call_stack'[d - 1].registers[i] = caller.registers[i]

C5_Call ==
  (Executes({"Call"}) /\ inst_bx(cur_inst) < 65534 /\ Succeeds) =>
    LET extra == WordOf(Frame, Frame.pc + 1)
    IN PushesFrame(inst_bx(cur_inst), None, inst_b(extra), inst_c(extra), 2)

\* Every frame pushed by a function Call sits on its caller, parked two words
\* after the Call word whose A field is the result register
C5_Parked ==
  \A d \in 2..Len(call_stack) :
    (IsSome(call_stack[d].return_info) /\ call_stack[d].agent_id = None) =>
      LET caller == call_stack[d - 1]
          call_pc == caller.pc - 2
      IN /\ IsCallWord(caller, call_pc)
         /\ inst_bx(WordOf(caller, call_pc)) = call_stack[d].function_idx
         /\ call_stack[d].return_info =
              Some(<<caller.function_idx, call_pc + 2, inst_a(WordOf(caller, call_pc))>>)

\* fn f(p1 .. pn) { return pk } called with 6 .. 5 + n yields 5 + k; without
\* a return it yields None
C5_Results ==
  (stage = "done" /\ input[1] = "call") =>
    /\ error = <<>>
    /\ outputs = IF input[2][2] = 0 \/ input[2][2] > input[2][1]
                 THEN <<VNum(1), VNone, VNum(99)>>
                 ELSE <<VNum(5 + input[2][2]), VNum(99)>>

\* C5: function call and return.  A Call with Bx < 0xFFFE pushes exactly one
\* frame for functions[Bx] whose r(0) .. r(n-1) hold the n values of the
\* caller's r(first_arg) .. r(first_arg + n - 1); when that frame executes
\* Ret A or RetNone it is popped, the caller's register named by the Call's A
\* field holds the returned value (None for RetNone), the stack has the depth
\* it had before the Call, and the caller goes on at the word after the
\* extra-data word.
C5_CallReturn ==
  [](C5_Parked /\ C5_Results) /\ [][C5_Call /\ ReturnsToCaller]_vars

\* C5 witness: f(p1, p2, p3) { return p2 } called with 6, 7, 8 has returned 7
C5_Witness ==
  /\ input = <<"call", <<3, 2>>>>
  /\ Running
  /\ Len(call_stack) = 1
  /\ outputs = <<VNum(7)>>

\* The function the descriptor of agent h maps a method name to: the first
\* method of the descriptor with that name
MethodsOf(h) == module.agents[agents[h].descriptor_idx + 1].methods
MethodFunction(h, name) ==
  LET ms == MethodsOf(h)
      named(i) == module.constants[ms[i][1] + 1] = CStr(name)
  IN ms[CHOOSE i \in 1..Len(ms) : named(i) /\ \A j \in 1..(i - 1) : ~named(j)][2]

C6_Call ==
  (Executes({"Call"}) /\ inst_bx(cur_inst) = 65534 /\ Succeeds
     /\ Len(call_stack') # Len(call_stack)) =>
    LET extra == WordOf(Frame, Frame.pc + 1)
        name == module.constants[inst_bx(WordOf(Frame, Frame.pc + 2)) + 1].s
        receiver == Frame.registers[inst_b(extra) + 1]
    IN /\ receiver.t = "AgentHandle"
       /\ receiver.n \in DOMAIN agents
       /\ PushesFrame(MethodFunction(receiver.n, name), Some(receiver.n),
                      inst_b(extra) + 1, inst_c(extra) - 1, 3)

\* A method Call on an agent handle either fails or pushes the frame
C6_Pushes ==
  (Executes({"Call"}) /\ inst_bx(cur_inst) = 65534 /\ Succeeds
     /\ Frame.pc + 1 < Len(CodeOf(Frame))
     /\ inst_b(WordOf(Frame, Frame.pc + 1)) < Len(Frame.registers)
     /\ Frame.registers[inst_b(WordOf(Frame, Frame.pc + 1)) + 1].t = "AgentHandle") =>
    Len(call_stack') = Len(call_stack) + 1

\* Every frame pushed by a method Call sits on its caller, parked three words
\* after the Call word whose A field is the result register
C6_Parked ==
  \A d \in 2..Len(call_stack) :
    (IsSome(call_stack[d].return_info) /\ IsSome(call_stack[d].agent_id)) =>
      LET caller == call_stack[d - 1]
          call_pc == caller.pc - 3
      IN /\ IsCallWord(caller, call_pc)
         /\ inst_bx(WordOf(caller, call_pc)) = 65534
         /\ Unwrap(call_stack[d].agent_id) \in DOMAIN agents
         /\ call_stack[d].return_info =
              Some(<<caller.function_idx, call_pc + 3, inst_a(WordOf(caller, call_pc))>>)

\* The Counter scenario and the relay scenario end with the values the
\* methods returned
C6_Results ==
  /\ (stage = "done" /\ input = <<"source", <<1>>>>) =>
       outputs = <<VNum(1), VNum(2), VNum(1), VNum(3), VNum(2)>>
  /\ (stage = "done" /\ input = <<"source", <<13>>>>) =>
       /\ outputs = <<VNum(0), VNum(8)>>
       /\ error = <<"Runtime", "method 'missing' not found on agent">>

\* C6: agent method call.  A Call with Bx = 0xFFFE whose receiver register
\* holds AgentHandle(h) pushes exactly one frame for the function the
\* descriptor of h maps the method name to, with agent_id = h and with the
\* callee's r(0) .. r(n-2) holding the caller's r(first_arg + 1) ..
\* r(first_arg + n - 1): the receiver is not passed.  On return the caller
\* goes on after the third word of the group with the result in r(A).
C6_MethodCall ==
  [](C6_Parked /\ C6_Results) /\ [][C6_Call /\ C6_Pushes /\ ReturnsToCaller]_vars

\* C6 witness: a.relay(b, 8) runs in a frame owned by a, with b and 8 in
\* r(0) and r(1)
C6_Witness ==
  /\ input = <<"source", <<13>>>>
  /\ Running
  /\ Len(call_stack) = 2
  /\ Frame.agent_id = Some(1)
  /\ Frame.pc = 0
  /\ Frame.registers[1] = VAgentHandle(2)
  /\ Frame.registers[2] = VNum(8)

\* C6 witness of the return: relay has stored 8 in b through its argument
\* and its result and the result of b.get() have been emitted
C6_ReturnedWitness ==
  /\ input = <<"source", <<13>>>>
  /\ Running
  /\ Len(call_stack) = 1
  /\ outputs = <<VNum(0), VNum(8)>>


NotInAgentContext == <<"Runtime", "not in an agent context">>
NoAgentFrame == Executes({"MLoad", "MStore"}) /\ Frame.agent_id = None

C7_AlwaysThatError ==
  NoAgentFrame =>
    /\ stage' = "done"
    /\ error' = NotInAgentContext
    /\ agents' = agents

\* The field operand of the instruction names a string constant, and the
\* register an MStore reads is inside the frame
FieldOperandOk ==
  /\ inst_bx(cur_inst) < Len(module.constants)
  /\ module.constants[inst_bx(cur_inst) + 1].t = "Str"
SourceRegisterOk == cur_op = "MLoad" \/ inst_a(cur_inst) < Len(Frame.registers)

C7_ErrorByOperand ==
  NoAgentFrame =>
    /\ stage' = "done"
    /\ agents' = agents
    /\ error' =
         IF inst_bx(cur_inst) >= Len(module.constants)
         THEN <<"Runtime", "constant " \o ToString(inst_bx(cur_inst)) \o " not found">>
         ELSE IF ~FieldOperandOk
         THEN <<"Runtime", "expected string constant at index " \o
                           ToString(inst_bx(cur_inst))>>
         ELSE IF ~SourceRegisterOk THEN <<"Panic", index_panic>>
         ELSE NotInAgentContext

SelfAtTopLevel == <<FieldAssignStmt(Ident("self"), "x", NumberLit(1))>>

\* C8, as stated: the source program `self.x = 1` passes the resolver and
\* the compiler and fails only at run time, with the runtime error "not in
\* an agent context".
C8_AsStated ==
  (input[1] = "source" /\ Program(input) = SelfAtTopLevel /\ stage = "done") =>
    error = NotInAgentContext

\* C8: the source program `self.x = 1` does not pass the resolver: `self` is
\* defined only inside an agent definition, so the pipeline ends at the
\* resolver with the semantic error "undefined variable 'self'", and the
\* program is neither compiled nor run.  Handed to Compiler::compile without
\* the resolver, the same program compiles to an MStore in the entry
\* function and the run ends with the runtime error "not in an agent
\* context".
C8_SelfAtTopLevel ==
  /\ (input[1] = "source" /\ Program(input) = SelfAtTopLevel) =>
       /\ stage \in {"parsed", "done"}
       /\ module = NewModule
       /\ call_stack = <<>>
       /\ stage = "done" => error = <<"Semantic", "undefined variable 'self'">>
  /\ (input[1] = "ast" /\ Program(input) = SelfAtTopLevel) =>
       /\ stage # "resolved" =>
            \E pc \in 0..(Len(module.functions[module.entry_function + 1].instructions) - 1) :
              opcode(module.functions[module.entry_function + 1].instructions[pc + 1])
                = Some("MStore")
       /\ stage = "done" => error = NotInAgentContext /\ agents = EmptyMap

\* C8 witness: the pipeline has ended at the resolver
C8_Witness ==
  /\ input = <<"source", <<2>>>>
  /\ Program(input) = SelfAtTopLevel
  /\ stage = "done"
  /\ error = <<"Semantic", "undefined variable 'self'">>

\* C8 witness of the run without the resolver
C8_UnresolvedWitness ==
  /\ input = <<"ast", <<2>>>>
  /\ stage = "done"
  /\ error = NotInAgentContext


(***************************************************************************)
(* The meaning of the source statements, for the programs of the if, while *)
(* and for inputs: an environment of variables and the values emitted.     *)
(***************************************************************************)
Truthy(v) == v \notin {VNone, VBool(FALSE), VNum(0), VStr("")}
Bind(env, name, v) == [n \in DOMAIN env \cup {name} |-> IF n = name THEN v ELSE env[n]]
NoVars == [n \in {} |-> VNone]
\* More iterations than any loop of the inputs makes
LoopFuel == 2 * (MaxLoop + MaxListLen) + 4

RECURSIVE SrcExpr(_, _), SrcStmt(_, _), SrcBody(_, _), SrcWhile(_, _, _), SrcFor(_, _, _)
SrcExpr(env, e) ==
  CASE e.k = "NumberLit" -> VNum(e.n)
    [] e.k = "BoolLit" -> VBool(e.b)
    [] e.k = "StringLit" -> VStr(e.s)
    [] e.k = "NoneLit" -> VNone
    [] e.k = "Ident" -> env[e.name]
    [] e.k = "BinOp" ->
         LET l == SrcExpr(env, e.left)
             r == SrcExpr(env, e.right)
         IN CASE e.op = "Add" -> VNum(l.n + r.n)
              [] e.op = "Mod" -> VNum(l.n % r.n)
              [] e.op = "Lt" -> VBool(l.n < r.n)
              [] e.op = "Gt" -> VBool(l.n > r.n)
              [] e.op = "Eq" -> VBool(l = r)

SrcBody(st, body) ==
  IF body = <<>> THEN st ELSE SrcBody(SrcStmt(st, Head(body)), Tail(body))

\* while c { body }: the condition is evaluated before every iteration
SrcWhile(st, stmt, fuel) ==
  IF fuel = 0 \/ ~Truthy(SrcExpr(st.env, stmt.condition)) THEN st
  ELSE SrcWhile(SrcBody(st, stmt.body), stmt, fuel - 1)

\* for x in items { body }: once for every item, in order
SrcFor(st, stmt, items) ==
  IF items = <<>> THEN st
  ELSE SrcFor(SrcBody([st EXCEPT !.env = Bind(@, stmt.variable, Head(items))], stmt.body),
              stmt, Tail(items))

SrcStmt(st, stmt) ==
  CASE stmt.k \in {"Let", "Assign"} ->
         [st EXCEPT !.env = Bind(@, stmt.name, SrcExpr(st.env, stmt.value))]
    [] stmt.k = "Emit" -> [st EXCEPT !.out = Append(@, SrcExpr(st.env, stmt.value))]
    [] stmt.k = "If" ->
         IF Truthy(SrcExpr(st.env, stmt.condition)) THEN SrcBody(st, stmt.then_body)
         ELSE IF IsSome(stmt.else_body) THEN SrcBody(st, Unwrap(stmt.else_body))
         ELSE st
    [] stmt.k = "While" -> SrcWhile(st, stmt, LoopFuel)
    [] stmt.k = "For" ->
         SrcFor(st, stmt, [i \in 1..Len(stmt.iterable.elems) |->
                             SrcExpr(st.env, stmt.iterable.elems[i])])

SrcOutputs(program) == SrcBody([env |-> NoVars, out |-> <<>>], program).out

\* The compiled program has run to its end and emitted what the source means
RunsAs(kinds) ==
  (stage = "done" /\ input[1] \in kinds) =>
    error = <<>> /\ outputs = SrcOutputs(Program(input))

Pc == Frame.pc
PcAfter == call_stack'[Len(call_stack)].pc
RegistersAfter == call_stack'[Len(call_stack)].registers

\* Jmp and JmpFalse / JmpTrue add their offset to the pc after the jump word
\* (a target inside the function: the pc is not negative)
C9_Jumps ==
  /\ (Executes({"Jmp"}) /\ Succeeds /\ Pc + 1 + sbx_24(cur_inst) >= 0) =>
       PcAfter = Pc + 1 + sbx_24(cur_inst)
  /\ (Executes({"JmpFalse", "JmpTrue"}) /\ Succeeds
         /\ Pc + 1 + sbx_16(cur_inst) >= 0) =>
       LET t == Truthy(Frame.registers[inst_a(cur_inst) + 1])
           taken == IF cur_op = "JmpFalse" THEN ~t ELSE t
       IN PcAfter = Pc + 1 + (IF taken THEN sbx_16(cur_inst) ELSE 0)

\* C9: compiled If and While go where the source says, under the VM's rule
\* of advancing the pc and then adding the offset.  For If, a falsy condition
\* goes on at the first instruction of the else body (after the then body
\* when there is no else) and a completed then body skips the else body; for
\* While, the condition is evaluated before every iteration, the body runs
\* exactly while it is truthy, and the exit goes on after the backward Jmp.
\* The markers emitted in each body and after the statement make the path
\* taken the output of the run.
C9_IfWhile == []RunsAs({"if", "while"}) /\ [][C9_Jumps]_vars

\* C9 witness: while i < 3 { if i % 2 == 0 { emit i }  i = i + 1 }  emit 99
C9_Witness ==
  /\ input = <<"while", <<3, "if">>>>
  /\ stage = "done"
  /\ outputs = <<VNum(0), VNum(2), VNum(99)>>

\* C9 witness of the else body: if 0 { emit 1 .. } else { emit 4 }
C9_ElseWitness ==
  /\ input = <<"if", <<3, 1, "else">>>>
  /\ stage = "done"
  /\ outputs = <<VNum(0), VNum(4), VNum(99)>>

\* IterNext A, sBx16 with the iterator register in its extra word
C10_IterNext ==
  (Executes({"IterNext"}) /\ Succeeds) =>
    LET it == Frame.registers[inst_b(WordOf(Frame, Pc + 1)) + 1]
        cursor == heap[it.n].cursor
        items == heap[it.n].items
    IN /\ it.t = "Iterator"
       /\ cursor <= Len(items)
       /\ \A r \in DOMAIN heap : r # it.n => heap'[r] = heap[r]
       /\ heap'[it.n].items = items
       /\ IF cursor < Len(items)
          THEN /\ RegistersAfter[inst_a(cur_inst) + 1] = items[cursor + 1]
               /\ heap'[it.n].cursor = cursor + 1
               /\ PcAfter = Pc + 2
          ELSE /\ heap'[it.n].cursor = cursor
               /\ RegistersAfter = Frame.registers
               /\ PcAfter = Pc + 2 + sbx_16(cur_inst)

\* C10: a compiled `for x in xs { body }` over a list of n elements runs the
\* body exactly n times with x bound to the elements in list order, not at
\* all for an empty list, and goes on after the backward Jmp.  IterNext with
\* cursor < length writes the current item to r(A) and advances the cursor
\* by one; IterNext with cursor = length leaves the cursor and jumps by
\* sBx16 from the pc after the extra-data word.
C10_ForLoop == []RunsAs({"for"}) /\ [][C10_IterNext]_vars

\* C10 witness: for x in [10, 20, 30] { emit x } between emit 0 and emit 99
C10_Witness ==
  /\ input = <<"for", <<3, "plain">>>>
  /\ stage = "done"
  /\ outputs = <<VNum(0), VNum(10), VNum(20), VNum(30), VNum(99)>>

\* C10 witness of the empty list
C10_EmptyWitness ==
  /\ input = <<"for", <<0, "plain">>>>
  /\ stage = "done"
  /\ outputs = <<VNum(0), VNum(99)>>

(***************************************************************************)
(* C11: iteration walks a snapshot.                                        *)
(***************************************************************************)
\* The items are the keys of the entries, each once, in some order
KeysOf(items, entries) ==
  /\ Len(items) = Len(entries)
  /\ \A i \in 1..Len(entries) : \E j \in 1..Len(items) : items[j] = VStr(entries[i][1])

\* The iterators some register of some frame holds
LiveIterators ==
  UNION {{call_stack[d].registers[i].n :
            i \in {k \in 1..Len(call_stack[d].registers) :
                     call_stack[d].registers[k].t = "Iterator"}} :
         d \in 1..Len(call_stack)}

\* IterInit A, B makes a new iterator at cursor 0 over the items r(B) holds
\* at that moment: the list's elements in order, or the map's keys
C11_IterInit ==
  (Executes({"IterInit"}) /\ Succeeds) =>
    LET source == Frame.registers[inst_b(cur_inst) + 1]
        it == RegistersAfter[inst_a(cur_inst) + 1]
    IN /\ it.t = "Iterator"
       /\ it.n \notin DOMAIN heap
       /\ it.n \in DOMAIN heap'
       /\ heap'[it.n].cursor = 0
       /\ \A r \in DOMAIN heap : heap'[r] = heap[r]
       /\ IF source.t = "List" THEN heap'[it.n].items = heap[source.n].items
          ELSE source.t = "Map" /\ KeysOf(heap'[it.n].items, heap[source.n].items)

\* No step changes the items of an iterator, and its cursor only advances,
\* never past the number of items
C11_Frozen ==
  \A r \in LiveIterators :
    /\ r \in DOMAIN heap'
    /\ heap'[r].items = heap[r].items
    /\ heap'[r].cursor \in {heap[r].cursor, heap[r].cursor + 1}
    /\ heap'[r].cursor <= Len(heap[r].items)

\* A loop over n elements whose body changes the container it walks ends
\* after n rounds: the n elements as they were at IterInit, then the length
\* of the container as the body left it
C11_Rounds ==
  /\ (stage = "done" /\ input[1] = "snap") =>
       LET n == input[2][1]
       IN /\ error = <<>>
          /\ outputs = [i \in 1..n |-> VNum(10 * i)] \o
                       <<VNum(IF input[2][2] = "push" THEN 2 * n ELSE n)>>
  /\ (stage = "done" /\ input[1] = "snapmod") =>
       LET n == input[2][2]
           mut == input[2][3]
           keys == [i \in 1..n |-> VStr(SnapConstants[i + 1].s)]
       IN /\ error = <<>>
          /\ Len(outputs) = n + 1
          /\ IF input[2][1] = "list" THEN SubSeq(outputs, 1, n) = keys
             ELSE \A i \in 1..n : \E j \in 1..n : outputs[j] = keys[i]
          /\ outputs[n + 1] =
               VNum(CASE mut = "push" -> 2 * n
                      [] mut = "set" -> n
                      [] mut = "insert" -> IF n = 0 THEN 0 ELSE n + 1
                      [] mut = "remove" -> 0)

\* C11: after IterInit on a list (or map) of n elements (keys), the items the
\* following IterNext instructions produce are exactly the n elements present
\* at IterInit time, whatever pushes, index-sets or removals are applied to
\* the source container during the loop; a for-loop whose body pushes onto
\* the list it iterates ends after n iterations.
C11_Snapshot == []C11_Rounds /\ [][C11_IterInit /\ C11_Frozen]_vars

\* C11 witness: for x in xs { emit x  xs.push(x) } over three elements
C11_Witness ==
  /\ input = <<"snap", <<3, "push">>>>
  /\ stage = "done"
  /\ outputs = <<VNum(10), VNum(20), VNum(30), VNum(6)>>

\* C11 witness of a map walked in another order than its keys were inserted,
\* every key removed while it is walked
C11_MapWitness ==
  /\ input = <<"snapmod", <<"map", 2, "remove">>>>
  /\ stage = "done"
  /\ outputs = <<VStr("k2"), VStr("k1"), VNum(0)>>

(***************************************************************************)
(* C12: containers are shared by reference.                                *)
(***************************************************************************)
\* The container a register of the executing frame holds
Holds(reg, kinds) == Frame.registers[reg + 1].t \in kinds
CellOf(reg) == heap[Frame.registers[reg + 1].n]
CellOfAfter(reg) == heap'[Frame.registers[reg + 1].n]
OnlyCellChanges(reg) ==
  \A r \in DOMAIN heap : r # Frame.registers[reg + 1].n => heap'[r] = heap[r]

\* The receiver, the argument and the name of a built-in method call
MethodReceiver == inst_b(WordOf(Frame, Pc + 1))
MethodName == module.constants[inst_bx(WordOf(Frame, Pc + 2)) + 1].s
IsMethod(kinds, names) ==
  /\ Executes({"Call"}) /\ inst_bx(cur_inst) = 65534 /\ Succeeds
  /\ Holds(MethodReceiver, kinds) /\ MethodName \in names

\* Move and argument passing hand on the value itself, reference included,
\* and leave every container as it is
C12_Copies ==
  /\ (Executes({"Move"}) /\ Succeeds) =>
       /\ RegistersAfter[inst_a(cur_inst) + 1] = Frame.registers[inst_b(cur_inst) + 1]
       /\ heap' = heap
  /\ (Executes({"Call"}) /\ inst_bx(cur_inst) # 65534 /\ Succeeds) =>
       LET first == inst_b(WordOf(Frame, Pc + 1))
           n == inst_c(WordOf(Frame, Pc + 1))
       IN /\ \A i \in 1..n :
               call_stack'[Len(call_stack) + 1].registers[i] = Frame.registers[first + i]
          /\ heap' = heap

\* A change through a register changes the one container the value refers to
C12_Changes ==
  /\ (Executes({"ListPush"}) /\ Succeeds) =>
       /\ CellOfAfter(inst_a(cur_inst)).items =
            Append(CellOf(inst_a(cur_inst)).items, Frame.registers[inst_b(cur_inst) + 1])
       /\ OnlyCellChanges(inst_a(cur_inst))
  /\ IsMethod({"List"}, {"push"}) =>
       /\ CellOfAfter(MethodReceiver).items =
            Append(CellOf(MethodReceiver).items, Frame.registers[MethodReceiver + 2])
       /\ OnlyCellChanges(MethodReceiver)
  /\ (Executes({"IndexSet"}) /\ Succeeds /\ Holds(inst_a(cur_inst), {"List"})) =>
       LET i == f64_as_usize(Frame.registers[inst_b(cur_inst) + 1])
       IN /\ CellOfAfter(inst_a(cur_inst)).items =
               [CellOf(inst_a(cur_inst)).items EXCEPT
                  ![i + 1] = Frame.registers[inst_c(cur_inst) + 1]]
          /\ OnlyCellChanges(inst_a(cur_inst))
  /\ (Executes({"IndexSet"}) /\ Succeeds /\ Holds(inst_a(cur_inst), {"Map"})) =>
       LET key == Frame.registers[inst_b(cur_inst) + 1].s
           entries == CellOfAfter(inst_a(cur_inst)).items
       IN /\ map_get(entries, key) = Some(Frame.registers[inst_c(cur_inst) + 1])
          /\ \A e \in {CellOf(inst_a(cur_inst)).items[k] :
                         k \in 1..Len(CellOf(inst_a(cur_inst)).items)} :
               e[1] # key => map_get(entries, e[1]) = Some(e[2])
          /\ \A k \in 1..Len(entries) :
               entries[k][1] = key \/ map_contains(CellOf(inst_a(cur_inst)).items, entries[k][1])
          /\ OnlyCellChanges(inst_a(cur_inst))
  /\ IsMethod({"Map"}, {"remove"}) =>
       LET key == to_string(heap, Frame.registers[MethodReceiver + 2])
           entries == CellOfAfter(MethodReceiver).items
       IN /\ ~map_contains(entries, key)
          /\ \A k \in 1..Len(CellOf(MethodReceiver).items) :
               LET e == CellOf(MethodReceiver).items[k]
               IN e[1] # key => map_get(entries, e[1]) = Some(e[2])
          /\ Len(entries) <= Len(CellOf(MethodReceiver).items)
          /\ OnlyCellChanges(MethodReceiver)

\* A read through a register answers from the container as it is now
C12_Reads ==
  /\ (Executes({"Len"}) /\ Succeeds /\ Holds(inst_b(cur_inst), {"List", "Map"})) =>
       RegistersAfter[inst_a(cur_inst) + 1] = VNum(Len(CellOf(inst_b(cur_inst)).items))
  /\ IsMethod({"List", "Map"}, {"len"}) =>
       RegistersAfter[inst_a(cur_inst) + 1] = VNum(Len(CellOf(MethodReceiver).items))
  /\ IsMethod({"Map"}, {"contains"}) =>
       RegistersAfter[inst_a(cur_inst) + 1] =
         VBool(map_contains(CellOf(MethodReceiver).items,
                            to_string(heap, Frame.registers[MethodReceiver + 2])))
  /\ (Executes({"IndexGet"}) /\ Succeeds /\ Holds(inst_b(cur_inst), {"List"})) =>
       LET i == f64_as_usize(Frame.registers[inst_c(cur_inst) + 1])
           items == CellOf(inst_b(cur_inst)).items
       IN RegistersAfter[inst_a(cur_inst) + 1] =
            (IF i < Len(items) THEN items[i + 1] ELSE VNone)
  /\ (Executes({"IndexGet"}) /\ Succeeds /\ Holds(inst_b(cur_inst), {"Map"})) =>
       LET found == map_get(CellOf(inst_b(cur_inst)).items,
                            Frame.registers[inst_c(cur_inst) + 1].s)
       IN RegistersAfter[inst_a(cur_inst) + 1] =
            (IF found = None THEN VNone ELSE Unwrap(found))

RECURSIVE SharedList(_, _), SharedMap(_, _, _)
\* What the reads through r0 emit when the changes through r3 are applied to
\* one list, starting from [0]
SharedList(ops, list) ==
  IF ops = <<>> THEN <<>>
  ELSE LET op == Head(ops)
       IN CASE op \in {"push", "call"} -> SharedList(Tail(ops), Append(list, VNum(7)))
            [] op = "set" -> SharedList(Tail(ops), [list EXCEPT ![1] = VNum(7)])
            [] op \in {"len", "mlen"} -> <<VNum(Len(list))>> \o SharedList(Tail(ops), list)
            [] op = "get" -> <<list[1]>> \o SharedList(Tail(ops), list)
\* The same for one map, starting from {"k1": 0}: `keys` are its keys and
\* `at` its values
SharedMap(ops, keys, at) ==
  IF ops = <<>> THEN <<>>
  ELSE LET op == Head(ops)
           with(k, v) == [x \in {"k1", "k2"} |-> IF x = k THEN v ELSE at[x]]
       IN CASE op = "insert" -> SharedMap(Tail(ops), keys \cup {"k2"}, with("k2", VNum(7)))
            [] op = "call" -> SharedMap(Tail(ops), keys \cup {"k2"}, with("k2", VStr("k2")))
            [] op = "remove" -> SharedMap(Tail(ops), keys \ {"k1"}, at)
            [] op = "len" -> <<VNum(Cardinality(keys))>> \o SharedMap(Tail(ops), keys, at)
            [] op = "get" ->
                 <<IF "k1" \in keys THEN at["k1"] ELSE VNone>> \o
                 SharedMap(Tail(ops), keys, at)
            [] op = "contains" ->
                 <<VBool("k1" \in keys)>> \o SharedMap(Tail(ops), keys, at)

\* Every read through r0 sees every earlier change made through r3, in the
\* same frame or in a callee that got r3 as its argument
C12_Observed ==
  /\ (stage = "done" /\ input[1] = "share") =>
       /\ error = <<>>
       /\ outputs = IF input[2][1] = "list" THEN SharedList(input[2][2], <<VNum(0)>>)
                    ELSE SharedMap(input[2][2], {"k1"}, [x \in {"k1", "k2"} |-> VNum(0)])
  /\ (stage = "done" /\ input \in {<<"source", <<16>>>>, <<"ast", <<16>>>>}) =>
       /\ error = <<>>
       /\ outputs = <<VNum(2), VNum(2), VNum(20), VNum(30)>>

\* C12: whenever two registers (in the same frame or in a caller and a callee
\* frame, after Move or argument passing) hold the same List or Map value, a
\* mutation through one of them (list push, IndexSet, map remove) is observed
\* by every later read through the other (Len, IndexGet, len / contains).
C12_SharedByReference ==
  []C12_Observed /\ [][C12_Copies /\ C12_Changes /\ C12_Reads]_vars

\* C12 witness: a map changed through r3 in a callee and read through r0
C12_Witness ==
  /\ input = <<"share", <<"map", <<"call", "len">>>>>>
  /\ stage = "done"
  /\ outputs = <<VNum(2)>>
  /\ Len(heap) = 1

\* C12 witness of the compiled program: ys = xs, grow(ys, 20), reads of xs
C12_SourceWitness ==
  /\ input = <<"source", <<16>>>>
  /\ stage = "done"
  /\ outputs = <<VNum(2), VNum(2), VNum(20), VNum(30)>>

(***************************************************************************)
(* C13: list literals.                                                     *)
(***************************************************************************)
\* What the element expression of the given kind at position i evaluates to
ElemValue(kind, i) ==
  CASE kind = "lit" -> VNum(10 * i)
    [] kind = "ident" -> VNum(5)
    [] kind = "binop" -> VNum(5 + i)
    [] kind = "call" -> VNum(1)

\* The program has run and emitted one list
EmitsOneList ==
  /\ stage = "done" /\ error = <<>>
  /\ Len(outputs) = 1 /\ outputs[1].t = "List"

\* NewList A, B, n builds the list from r(B) .. r(B + n - 1), in order
C13_NewList ==
  (Executes({"NewList"}) /\ Succeeds) =>
    LET made == RegistersAfter[inst_a(cur_inst) + 1]
    IN /\ made.t = "List"
       /\ heap'[made.n].items =
            [i \in 1..inst_c(cur_inst) |-> Frame.registers[inst_b(cur_inst) + i]]

\* C13 as stated: a list literal [e1, ..., en] evaluates to a list of length
\* n whose i-th element is the value of ei, for every kind of element
\* expression (literals, identifiers of existing locals, binary operations,
\* calls).
C13_AsStated ==
  (stage = "done" /\ input[1] = "list") =>
    /\ EmitsOneList
    /\ heap[outputs[1].n].items = [i \in 1..Len(input[2]) |-> ElemValue(input[2][i], i)]

\* C13, the part that holds: a literal whose elements are all literals
\* evaluates to its elements, and NewList builds from consecutive registers
C13_Literals ==
  /\ [](((stage = "done" /\ input[1] = "list"
          /\ \A i \in 1..Len(input[2]) : input[2][i] = "lit") =>
           /\ EmitsOneList
           /\ heap[outputs[1].n].items = [i \in 1..Len(input[2]) |-> VNum(10 * i)]))
  /\ [][C13_NewList]_vars

\* `let x = 5  emit [x, 20]` has run: the list is [20, none], not [5, 20]
C13_Divergence ==
  /\ input = <<"list", <<"ident", "lit">>>>
  /\ EmitsOneList
  /\ heap[outputs[1].n].items = <<VNum(20), VNone>>


(***************************************************************************)
(* C14: tool-call arguments and defaults.                                  *)
(***************************************************************************)
\* The tool input's declaration and call: which parameters declare a default,
\* and the number of explicit arguments
ToolDefaults == input[2][2]
ToolExplicit == input[2][3]
ParamName(j) == "p" \o ToString(j)
ExplicitValue(i) == "a" \o ToString(i)
DefaultValue(j) == "d" \o ToString(j)
\* The (name, value) pairs of the first request a TCall handed to the host
ToolRequests == {c \in 1..Len(host_calls) : host_calls[c][1] = "tool_call"}
RequestArgs(c) == host_calls[c][2].args
PairsOf(c) == {RequestArgs(c)[i] : i \in 1..Len(RequestArgs(c))}
\* The pairs the declaration and the call ask for
ExplicitPairs == {<<ParamName(i), ExplicitValue(i)>> : i \in 1..ToolExplicit}
DefaultPairs ==
  {<<ParamName(j), DefaultValue(j)>> :
     j \in {m \in (ToolExplicit + 1)..Len(ToolDefaults) : ToolDefaults[m]}}
\* a call of t with no more arguments than parameters
IsToolCall == input[1] = "tool" /\ ToolExplicit <= Len(ToolDefaults)

\* C14 (as stated): a call of a tool with k <= n explicit arguments reaches the
\* host with one request in which argument i is paired with the name p_i for
\* every i <= k, the declared default of every omitted parameter p_j that has
\* one is paired with the name p_j, and no other pair occurs.
C14_AsStated ==
  IsToolCall =>
    /\ stage = "done" => ToolRequests # {}
    /\ \A c \in ToolRequests : PairsOf(c) = ExplicitPairs \cup DefaultPairs

\* Every omitted parameter before an omitted parameter with a default has a
\* default itself
DefaultsAreTrailing ==
  \A j \in (ToolExplicit + 1)..Len(ToolDefaults) :
    ToolDefaults[j] => \A m \in (ToolExplicit + 1)..j : ToolDefaults[m]

\* C14 (the part that holds): when no omitted parameter without a default
\* precedes one with a default, the request is the explicit pairs followed by
\* the default pairs, in the order of the parameters.
C14_TrailingDefaults ==
  (IsToolCall /\ DefaultsAreTrailing) =>
    /\ stage = "done" => ToolRequests # {}
    /\ \A c \in ToolRequests :
         /\ PairsOf(c) = ExplicitPairs \cup DefaultPairs
         /\ \A i \in 1..Len(RequestArgs(c)) : RequestArgs(c)[i][1] = ParamName(i)

\* tool t { param p1: str  param p2: str  param p3: str = "d3" }  t("a1"): the
\* host is handed p1=a1, p2=d3
C14_Divergence ==
  /\ input = <<"tool", <<"EchoHost", <<FALSE, FALSE, TRUE>>, 1>>>>
  /\ ToolRequests # {}
  /\ \A c \in ToolRequests : RequestArgs(c) = <<<<"p1", "a1">>, <<"p2", "d3">>>>
  /\ stage = "done"
  /\ outputs = <<VNum(0), VStr("t(p1=a1, p2=d3)"), VNum(9)>>

\* tool t { param p1: str  param p2: str = "d2" }  t("a1"): p1=a1, p2=d2
C14_DefaultWitness ==
  /\ input = <<"tool", <<"EchoHost", <<FALSE, TRUE>>, 1>>>>
  /\ stage = "done"
  /\ outputs = <<VNum(0), VStr("t(p1=a1, p2=d2)"), VNum(9)>>


(***************************************************************************)
(* C15: the resolution order of a call.                                    *)
(***************************************************************************)
\* The entry function of the compiled module and the call opcodes in it
EntryCode == module.functions[module.entry_function + 1].instructions
CallOps == {"Spawn", "TCall", "Call"}
CallOpsOf(words) ==
  {Unwrap(opcode(words[i])) : i \in {j \in 1..Len(words) : IsSome(opcode(words[j]))}}
    \cap CallOps
Declared(kind) == \E i \in 1..Len(input[2]) : input[2][i] = kind
\* The opcode the order agent, tool, function gives the call of `n`
ResolvedOp ==
  CASE Declared("agent") -> "Spawn"
    [] Declared("tool") -> "TCall"
    [] Declared("fn") -> "Call"
    [] OTHER -> "none"
UndefinedFunctionOrTool(name) ==
  <<"Codegen", "undefined function or tool" \o " '" \o name \o "'">>

\* C15: a call n(7) after declarations of n as agent, tool and function (any
\* of them, in any order) compiles to Spawn when n is an agent, else to TCall
\* when n is a tool, else to Call when n is a function, and to no other call
\* instruction; when n is in none of the tables the compiler rejects the
\* program with "undefined function or tool 'n'" and nothing is run.
C15_ResolutionOrder ==
  (input[1] = "names" /\ stage # "resolved") =>
    IF ResolvedOp = "none"
    THEN /\ stage = "done"
         /\ error = UndefinedFunctionOrTool("n")
         /\ module = NewModule
         /\ call_stack = <<>> /\ outputs = <<>>
    ELSE /\ CallOpsOf(EntryCode) = {ResolvedOp}
         /\ stage = "done" =>
              /\ error = <<>>
              /\ Len(outputs) = 1
              /\ ResolvedOp = "Spawn" => outputs[1] = VAgentHandle(1)
              /\ ResolvedOp = "TCall" => outputs[1] = VStr("n(p1=7)")
              /\ ResolvedOp = "Call" => outputs[1] = VNum(7)

\* C15 witness: n declared as a function and then as a tool is called as a tool
C15_Witness ==
  /\ input = <<"names", <<"fn", "tool">>>>
  /\ stage = "done"
  /\ CallOpsOf(EntryCode) = {"TCall"}
  /\ outputs = <<VStr("n(p1=7)")>>

\* C15 witness: n declared as a tool, a function and an agent is spawned
C15_AgentWitness ==
  /\ input = <<"names", <<"tool", "fn", "agent">>>>
  /\ stage = "done"
  /\ CallOpsOf(EntryCode) = {"Spawn"}

\* C15 witness: n declared nowhere
C15_UndefinedWitness ==
  /\ input = <<"names", <<>>>>
  /\ stage = "done"
  /\ error = UndefinedFunctionOrTool("n")


(***************************************************************************)
(* C16: the names of functions, agents and tools as values.                *)
(***************************************************************************)
\* The number of words of the given opcode in a code sequence
CountOp(words, op) == Cardinality({i \in 1..Len(words) : opcode(words[i]) = Some(op)})
NameUseLocal == input[2][3]

C16_Divergence ==
  /\ input = <<"nameuse", <<"fn", "assign", TRUE>>>>
  /\ stage = "done" /\ error = <<>>
  /\ CountOp(EntryCode, "Move") = 1
  /\ outputs = <<VNum(1)>>

\* let x = 5   fn n(p1) { return p1 }   emit n   emit x: `emit n` is compiled
\* to Emit of register 0 and emits the value of x
C16_ValueDivergence ==
  /\ input = <<"nameuse", <<"fn", "value", TRUE>>>>
  /\ stage = "done" /\ error = <<>>
  /\ outputs = <<VNum(5), VNum(5)>>


(***************************************************************************)
(* C17: the order of the pipeline's stages.                                *)
(***************************************************************************)
StageOrder == <<"source", "lexed", "parsed", "resolved", "compiled", "running", "done">>
StageRank(st) == CHOOSE i \in 1..Len(StageOrder) : StageOrder[i] = st
\* The stage whose error this is
ErrorStage ==
  [Lexer |-> "source", Parse |-> "lexed", Semantic |-> "parsed",
   Codegen |-> "resolved", Runtime |-> "running", Panic |-> "running"]
\* Nothing of the VM has been touched: no frame, no output, no agent
NothingExecuted ==
  /\ call_stack = <<>> /\ outputs = <<>> /\ sink = <<>> /\ host_calls = <<>>
  /\ agents = EmptyMap /\ heap = <<>> /\ next_agent_id = 1
NothingCompiled == module = NewModule
EmitX == <<EmitStmt(Ident("x"))>>
EmitFoo == <<EmitStmt(FnCall("foo", <<>>))>>

\* Every step is taken from a stage that has not ended and moves to the next
\* stage or, on an error of that stage, to the end; an error is reported by
\* the stage the step was taken from
C17_Steps ==
  /\ stage # "done"
  /\ stage' # stage =>
       \/ stage' = "done"
       \/ StageRank(stage') = StageRank(stage) + 1 /\ error' = error
  /\ error' # error =>
       /\ error = <<>> /\ stage' = "done"
       /\ ErrorStage[error'[1]] = stage \/ (error'[1] = "Panic" /\ stage = "compiled")
                                        \/ (error'[1] = "Runtime" /\ stage = "compiled")
  /\ stage \in {"source", "lexed", "parsed"} => module' = module
  /\ stage \in {"source", "lexed", "parsed", "resolved"} =>
       UNCHANGED <<call_stack, outputs, sink, host_calls, agents, heap, next_agent_id>>

\* An error of the lexer, the parser, the resolver or the compiler has ended
\* the run with nothing compiled and nothing executed
C17_Stopped ==
  /\ (error # <<>> /\ error[1] \in {"Lexer", "Parse", "Semantic", "Codegen"}) =>
       stage = "done" /\ NothingCompiled /\ NothingExecuted
  /\ (~IsModule(input) /\ stage \in {"source", "lexed", "parsed", "resolved"}) =>
       NothingCompiled /\ NothingExecuted /\ error = <<>>

\* `emit x` ends at the resolver with "undefined variable 'x'"; `emit foo()`
\* passes the resolver and ends at the compiler with "undefined function or
\* tool 'foo'"; neither is executed
C17_Examples ==
  /\ (input[1] \in {"source", "text"} /\ Program(input) = EmitX) =>
       /\ stage \in {"source", "lexed", "parsed", "done"}
       /\ NothingCompiled /\ NothingExecuted
       /\ (stage = "done" /\ (input[1] = "text" => input[2][2] = "program")) =>
            error = <<"Semantic", "undefined variable" \o " 'x'">>
  /\ (input[1] \in {"source", "text"} /\ Program(input) = EmitFoo) =>
       /\ stage \in {"source", "lexed", "parsed", "resolved", "done"}
       /\ NothingCompiled /\ NothingExecuted
       /\ (stage = "done" /\ (input[1] = "text" => input[2][2] = "program")) =>
            error = UndefinedFunctionOrTool("foo")

\* C17: the pipeline runs lex, parse, resolve, compile, run in this order; a
\* stage that reports an error ends the run before any later stage has run,
\* with nothing compiled or executed when the stage is before the run; `emit
\* x` is rejected by the resolver with "undefined variable" and never compiled
\* or executed; `emit foo()` passes the resolver and is rejected by the
\* compiler without anything being executed.
C17_Pipeline == [](C17_Stopped /\ C17_Examples) /\ [][C17_Steps]_vars

\* C17 witness: `emit x` given to cmd_exec has ended at the resolver
C17_Witness ==
  /\ input = <<"text", <<17, "program">>>>
  /\ Program(input) = EmitX
  /\ stage = "done"
  /\ error = <<"Semantic", "undefined variable 'x'">>
  /\ NothingCompiled /\ NothingExecuted

\* C17 witness: `emit foo()` has passed the resolver
C17_ResolvedWitness ==
  /\ input = <<"text", <<18, "program">>>>
  /\ Program(input) = EmitFoo
  /\ stage = "resolved"

\* C17 witness: `emit foo()` has ended at the compiler
C17_CompilerWitness ==
  /\ input = <<"text", <<18, "program">>>>
  /\ stage = "done"
  /\ error = UndefinedFunctionOrTool("foo")
  /\ NothingCompiled /\ NothingExecuted


(***************************************************************************)
(* C18: the collected outputs.                                             *)
(***************************************************************************)
\* The values the sink was handed by on_emit, in order
RECURSIVE SinkEmits(_)
SinkEmits(calls) ==
  IF calls = <<>> THEN <<>>
  ELSE IF calls[Len(calls)][1] = "emit"
       THEN Append(SinkEmits(SubSeq(calls, 1, Len(calls) - 1)), calls[Len(calls)][2])
       ELSE SinkEmits(SubSeq(calls, 1, Len(calls) - 1))
IsPrefix(s, t) == Len(s) <= Len(t) /\ SubSeq(t, 1, Len(s)) = s
\* This step dispatches an Emit whose register is one of the frame's
EmitsNow == Dispatching({"Emit"}) /\ reg_ok(CurVM, inst_a(cur_inst))

\* An executed Emit appends r(A) to the outputs and calls on_emit once with it
C18_Emit ==
  EmitsNow =>
    /\ outputs' = Append(outputs, get_register(CurVM, inst_a(cur_inst)))
    /\ sink' = Append(sink, <<"emit", get_register(CurVM, inst_a(cur_inst))>>)
    /\ stage' = "running" /\ error' = error

\* No other step, a failing one included, changes the outputs or hands the
\* sink a value
C18_Others ==
  ~EmitsNow =>
    /\ outputs' = outputs
    /\ SinkEmits(sink') = SinkEmits(sink)

\* The outputs are empty until the run starts, and they are the values the
\* sink was handed, in the same order
C18_Collected ==
  /\ outputs = SinkEmits(sink)
  /\ stage \in {"source", "lexed", "parsed", "resolved", "compiled"} => outputs = <<>>

\* C18: the outputs are empty before the first Emit; every executed Emit
\* appends r(A) and calls the sink's on_emit once with the same value; no
\* other instruction, failing ones included, changes the list, so the list of
\* any state is a prefix of the list of every later state.
C18_Outputs ==
  /\ []C18_Collected
  /\ [][C18_Emit /\ C18_Others /\ IsPrefix(outputs, outputs')]_vars

\* C18 witness: eleven Emits, then a failing instruction (3 - "a"): the eleven
\* values are the outputs of the failed run, and the sink was handed the same
C18_Witness ==
  /\ input = <<"source", <<7>>>>
  /\ stage = "done"
  /\ error = <<"Runtime", "arithmetic requires numeric operands, got 3 and a">>
  /\ Len(outputs) = 11
  /\ SubSeq(outputs, 1, 3) = <<VNum(3), VNum(3), VNone>>
  /\ outputs[11] = VNum(4)
  /\ sink = [i \in 1..11 |-> <<"emit", outputs[i]>>]

\* C18 witness: a Log hands the sink a message and leaves the outputs alone
C18_LogWitness ==
  /\ input = <<"module", <<17>>>>
  /\ stage = "done"
  /\ sink = <<<<"log", 2, "ab">>, <<"emit", VStr("ab")>>>>
  /\ outputs = <<VStr("ab")>>


(***************************************************************************)
(* C19: host failures.                                                     *)
(***************************************************************************)
\* No register of any frame is written by this step
SameRegisters ==
  /\ Len(call_stack') = Len(call_stack)
  /\ \A d \in 1..Len(call_stack) : call_stack'[d].registers = call_stack[d].registers
\* The request this step handed to the host
Asked == Len(host_calls') = Len(host_calls) + 1
LastCall == host_calls'[Len(host_calls')]
\* What the VM does with the host's answer: on Ok(s) the string is written to
\* r(A) and the run goes on; on Err(e) the run ends with prefix e and no
\* register is written
Answered(res, prefix, result_reg) ==
  IF res.ok
  THEN reg_ok(CurVM, result_reg) =>
         /\ stage' = "running" /\ error' = error
         /\ top([call_stack |-> call_stack']).registers[result_reg + 1] = VStr(res.s)
  ELSE /\ stage' = "done"
       /\ error' = <<"Runtime", prefix \o res.s>>
       /\ SameRegisters
       /\ outputs' = outputs /\ agents' = agents /\ heap' = heap

\* An Exec hands the host one request with the string of r(B) as the prompt
C19_Exec ==
  (Dispatching({"Exec"}) /\ reg_ok(CurVM, inst_b(cur_inst))) =>
    /\ Asked /\ LastCall[1] = "exec"
    /\ LastCall[2].user_prompt = to_string(heap, get_register(CurVM, inst_b(cur_inst)))
    /\ \E choice \in HostChoices(host) :
         Answered(host_exec(host, LastCall[2], choice), "exec error: ", inst_a(cur_inst))

\* A TCall of a compiled program always reaches the host; one that reaches
\* the host is answered likewise
C19_TCall ==
  Dispatching({"TCall"}) =>
    /\ ~IsModule(input) => Asked
    /\ Asked =>
         /\ LastCall[1] = "tool_call"
         /\ \E choice \in HostChoices(host) :
              Answered(host_tool_call(host, LastCall[2], choice), "tool call error: ",
                       inst_a(cur_inst))

\* With the host of VM::new every Exec and every TCall ends the run with an
\* error and writes no register; the error is the host's whenever the
\* request reached it
C19_NoHost ==
  (host = "NoHost" /\ Dispatching({"Exec", "TCall"})) =>
    /\ stage' = "done" /\ error' # <<>>
    /\ SameRegisters
    /\ Asked =>
         error' = IF cur_op = "Exec"
                  THEN <<"Runtime", "exec error: no host configured: cannot execute LLM prompts">>
                  ELSE <<"Runtime", "tool call error: no host configured: cannot call tools">>

\* C19: when the host answers an Exec (a TCall) with an error the run ends
\* with "exec error: " ("tool call error: ") and the host's message, r(A) and
\* every other register are left unwritten and no later instruction is
\* executed (no step leaves a run that has ended); with the host of VM::new
\* every Exec and every TCall ends the run this way.
C19_HostFailure == [][C19_Exec /\ C19_TCall /\ C19_NoHost /\ stage # "done"]_vars

\* C19 witness: emit 0, emit exec "hi", emit 9 without a host
C19_Witness ==
  /\ input = <<"exec", <<"NoHost", "top">>>>
  /\ stage = "done"
  /\ error = <<"Runtime", "exec error: no host configured: cannot execute LLM prompts">>
  /\ outputs = <<VNum(0)>>
  /\ host_calls = <<<<"exec", ExecRequest("default", None, "hi")>>>>

\* C19 witness: a tool call without a host
C19_ToolWitness ==
  /\ input = <<"tool", <<"NoHost", <<FALSE>>, 1>>>>
  /\ stage = "done"
  /\ error = <<"Runtime", "tool call error: no host configured: cannot call tools">>
  /\ outputs = <<VNum(0)>>

\* C19 witness: a host that fails inside an agent's method
C19_FailingWitness ==
  /\ input = <<"exec", <<"OtherHost", "method">>>>
  /\ stage = "done"
  /\ error = <<"Runtime", "exec error: host failed">>
  /\ outputs = <<VNum(0)>>
  /\ host_calls = <<<<"exec", ExecRequest("m1", Some("sp"), "hi")>>>>
  /\ Len(call_stack) = 2

\* C19 witness: the same program with a host that answers
C19_AnsweredWitness ==
  /\ input = <<"exec", <<"EchoHost", "method">>>>
  /\ stage = "done" /\ error = <<>>
  /\ outputs = <<VNum(0), VStr("hi"), VNum(9)>>


(***************************************************************************)
(* C20: Eq and Neq.                                                        *)
(***************************************************************************)
\* An Eq or a Neq whose three registers are registers of the frame
EqStep ==
  /\ Dispatching(EqOps)
  /\ regs_ok(CurVM, {inst_a(cur_inst), inst_b(cur_inst), inst_c(cur_inst)})
EqLhs == get_register(CurVM, inst_b(cur_inst))
EqRhs == get_register(CurVM, inst_c(cur_inst))
\* The value the step leaves in r(A)
EqWritten == call_stack'[Len(call_stack')].registers[inst_a(cur_inst) + 1]
\* Both None, both Bool, both Num or both Str
LikeScalars(v, w) == v.t = w.t /\ v.t \in {"None", "Bool", "Num", "Str"}
\* Equality of two like-typed scalars: the same value (NaN equals no number)
ScalarEqual(v, w) == v = w /\ ~(v.t = "Num" /\ v.s = "NaN")

\* C20: for operands that are both None, both Bool, both Num or both Str Eq
\* writes their equality and Neq their inequality; for every other pair of
\* operands, the same container compared with itself included, both Eq and
\* Neq write Bool(false).
C20_AsStated ==
  [][EqStep =>
       EqWritten = VBool(IF LikeScalars(EqLhs, EqRhs)
                         THEN (cur_op = "Eq") = ScalarEqual(EqLhs, EqRhs)
                         ELSE FALSE)]_vars

\* What holds: Eq is as stated, and Neq writes the negation of what Eq writes,
\* which for every pair other than like-typed scalars is Bool(true)
C20_NeqNegatesEq ==
  [][EqStep =>
       /\ stage' = "running" /\ error' = error
       /\ EqWritten = VBool(IF LikeScalars(EqLhs, EqRhs)
                            THEN (cur_op = "Eq") = ScalarEqual(EqLhs, EqRhs)
                            ELSE cur_op = "Neq")]_vars

\* The divergence: a list compared with itself is neither equal nor not unequal
C20_Divergence ==
  /\ input = <<"eq", <<"List", "same">>>>
  /\ stage = "done" /\ error = <<>>
  /\ outputs = <<VBool(FALSE), VBool(TRUE)>>

\* The divergence in a compiled program: let a = [1]; emit 1 != "a";
\* emit a == a; emit a != a
C20_SourceDivergence ==
  /\ input = <<"source", <<19>>>>
  /\ stage = "done" /\ error = <<>>
  /\ outputs = <<VBool(TRUE), VBool(FALSE), VBool(TRUE)>>

\* Like-typed scalars: 3 == 3 and 3 != 3, NaN == NaN and NaN != NaN
C20_ScalarWitness ==
  /\ input = <<"eq", <<"Num3", "same">>>>
  /\ stage = "done" /\ outputs = <<VBool(TRUE), VBool(FALSE)>>
C20_NaNWitness ==
  /\ input = <<"eq", <<"NaN", "NaN">>>>
  /\ stage = "done" /\ outputs = <<VBool(FALSE), VBool(TRUE)>>


(***************************************************************************)
(* C21: arithmetic and ordered comparison on operands that are no numbers. *)
(***************************************************************************)
\* An Add..Mod or Lt..Gte with an operand that is not a Num, or such a Neg
NonNumericStep ==
  \/ /\ Dispatching(ArithOps \cup CmpOps)
     /\ regs_ok(CurVM, {inst_b(cur_inst), inst_c(cur_inst)})
     /\ \/ get_register(CurVM, inst_b(cur_inst)).t # "Num"
        \/ get_register(CurVM, inst_c(cur_inst)).t # "Num"
  \/ /\ Dispatching({"Neg"})
     /\ reg_ok(CurVM, inst_b(cur_inst))
     /\ get_register(CurVM, inst_b(cur_inst)).t # "Num"
\* The error of the arm
NonNumericError ==
  LET both == to_string(heap, get_register(CurVM, inst_b(cur_inst))) \o " and " \o
              to_string(heap, get_register(CurVM, inst_c(cur_inst)))
  IN CASE cur_op \in ArithOps -> "arithmetic requires numeric operands, got " \o both
       [] cur_op \in CmpOps -> "comparison requires numeric operands, got " \o both
       [] cur_op = "Neg" -> "Neg requires numeric operand"

\* C21: Add, Sub, Mul, Div, Mod, Neg, Lt, Lte, Gt or Gte on an operand that
\* is not a Num ends the run with a runtime error; r(A) and every other
\* register keep their values, nothing is emitted, and no step leaves a run
\* that has ended, so no later instruction is executed.
C21_NonNumeric ==
  [][/\ stage # "done"
     /\ NonNumericStep =>
          /\ stage' = "done"
          /\ error' = <<"Runtime", NonNumericError>>
          /\ SameRegisters
          /\ outputs' = outputs /\ sink' = sink /\ heap' = heap /\ agents' = agents]_vars

\* C21 witness: r2 = "ab"; r2 = 3 + "x"; emit r2
C21_Witness ==
  /\ input = <<"arith", <<"Add", "Num3", "StrX">>>>
  /\ stage = "done"
  /\ error = <<"Runtime", "arithmetic requires numeric operands, got 3 and x">>
  /\ outputs = <<>>
  /\ call_stack[1].registers[3] = VStr("ab")
C21_CmpWitness ==
  /\ input = <<"arith", <<"Lt", "None", "Num3">>>>
  /\ stage = "done"
  /\ error = <<"Runtime", "comparison requires numeric operands, got none and 3">>
  /\ outputs = <<>>
  /\ call_stack[1].registers[3] = VStr("ab")
C21_NegWitness ==
  /\ input = <<"arith", <<"Neg", "True", "None">>>>
  /\ stage = "done"
  /\ error = <<"Runtime", "Neg requires numeric operand">>
  /\ outputs = <<>>
  /\ call_stack[1].registers[3] = VStr("ab")
\* Numbers: 3 % 0 is NaN and the run goes on
C21_NumericWitness ==
  /\ input = <<"arith", <<"Mod", "Num3", "Num0">>>>
  /\ stage = "done" /\ error = <<>>
  /\ outputs = <<[t |-> "Num", n |-> 0, s |-> "NaN"]>>


(***************************************************************************)
(* C22: `and` and `or` evaluate both operands.                             *)
(***************************************************************************)
LogicOp == input[2][1]
LogicLeft == input[2][2]
LogicRight == input[2][3]
\* The truthiness of the operands of the program's expression
LeftTruth == LogicLeft \in {"true", "callT"}
RightTruth == LogicRight \in {"true", "fnT", "tool", "exec"}
Combined(op, l, r) == IF op = "And" THEN l /\ r ELSE l \/ r
\* What a run leaves when both operands are evaluated, left first
LeftTrace == IF LogicLeft \in {"callT", "callF"} THEN <<VNum(1)>> ELSE <<>>
RightTrace == IF LogicRight \in {"fnT", "fnF", "method"} THEN <<VNum(2)>> ELSE <<>>
RightAsked ==
  CASE LogicRight = "tool" -> <<<<"tool_call", ToolCallRequest("t", <<>>)>>>>
    [] LogicRight = "exec" -> <<<<"exec", ExecRequest("default", None, "hi")>>>>
    [] OTHER -> <<>>
\* The entry function's code has no jump
NoJump ==
  /\ CountOp(EntryCode, "Jmp") = 0
  /\ CountOp(EntryCode, "JmpTrue") = 0
  /\ CountOp(EntryCode, "JmpFalse") = 0

\* Every run of `emit l and|or r; emit 9`: the left and then the right
\* operand left their traces whatever the left operand's value, and the
\* emitted value is the Bool of both truth values
C22_BothEvaluated ==
  (input[1] = "logic" /\ stage \in {"compiled", "running", "done"}) =>
    /\ NoJump
    /\ CountOp(EntryCode, LogicOp) = 1
    /\ stage = "done" =>
         /\ error = <<>>
         /\ outputs = LeftTrace \o RightTrace
                      \o <<VBool(Combined(LogicOp, LeftTruth, RightTruth)), VNum(9)>>
         /\ host_calls = RightAsked

\* An And or Or step writes the Bool of the truthiness of r(B) and r(C)
C22_Instruction ==
  (/\ Dispatching(LogicOps)
   /\ regs_ok(CurVM, {inst_a(cur_inst), inst_b(cur_inst), inst_c(cur_inst)})) =>
    /\ stage' = "running" /\ error' = error
    /\ call_stack'[Len(call_stack')].registers[inst_a(cur_inst) + 1] =
         VBool(Combined(cur_op,
                        is_truthy(heap, get_register(CurVM, inst_b(cur_inst))),
                        is_truthy(heap, get_register(CurVM, inst_c(cur_inst)))))

\* C22: `l and r` and `l or r` never short-circuit: the compiled code has no
\* jump, evaluates l and then r (function, method, tool and exec calls in r
\* included) whatever the value of l, and the And / Or instruction writes a
\* Bool computed from the truthiness of both registers.
C22_NoShortCircuit == []C22_BothEvaluated /\ [][C22_Instruction]_vars

\* C22 witness: false and f() still calls f
C22_Witness ==
  /\ input = <<"logic", <<"And", "false", "fnT">>>>
  /\ stage = "done" /\ error = <<>>
  /\ outputs = <<VNum(2), VBool(FALSE), VNum(9)>>
\* true or exec "hi" still asks the host
C22_OrWitness ==
  /\ input = <<"logic", <<"Or", "true", "exec">>>>
  /\ stage = "done" /\ error = <<>>
  /\ outputs = <<VBool(TRUE), VNum(9)>>
  /\ host_calls = <<<<"exec", ExecRequest("default", None, "hi")>>>>
\* g() and a.m(): left before right
C22_OrderWitness ==
  /\ input = <<"logic", <<"And", "callF", "method">>>>
  /\ stage = "done" /\ error = <<>>
  /\ outputs = <<VNum(1), VNum(2), VBool(FALSE), VNum(9)>>
\* none or t(): a Bool, not the operand
C22_TruthinessWitness ==
  /\ input = <<"logic", <<"Or", "none", "tool">>>>
  /\ stage = "done" /\ error = <<>>
  /\ outputs = <<VBool(TRUE), VNum(9)>>
  /\ Len(host_calls) = 1


(***************************************************************************)
(* C23: list indexing at the bounds.                                       *)
(***************************************************************************)
\* An IndexGet (IndexSet) of a list with a number as the index
GetStep ==
  /\ Dispatching({"IndexGet"})
  /\ regs_ok(CurVM, {inst_a(cur_inst), inst_b(cur_inst), inst_c(cur_inst)})
  /\ get_register(CurVM, inst_b(cur_inst)).t = "List"
  /\ get_register(CurVM, inst_c(cur_inst)).t = "Num"
SetStep ==
  /\ Dispatching({"IndexSet"})
  /\ regs_ok(CurVM, {inst_a(cur_inst), inst_b(cur_inst), inst_c(cur_inst)})
  /\ get_register(CurVM, inst_a(cur_inst)).t = "List"
  /\ get_register(CurVM, inst_b(cur_inst)).t = "Num"
GetItems == heap[get_register(CurVM, inst_b(cur_inst)).n].items
GetIndex == get_register(CurVM, inst_c(cur_inst))
SetItems == heap[get_register(CurVM, inst_a(cur_inst)).n].items
SetIndex == get_register(CurVM, inst_b(cur_inst))
GetWritten == call_stack'[Len(call_stack')].registers[inst_a(cur_inst) + 1]
\* The number is below zero; the number is len or more; the number is NaN
IsNegative(v) == v.n < 0 \/ v.s = "-inf"
IsNaN(v) == v.s = "NaN"
AtLeast(v, len) ==
  CASE v.s = "" -> v.n >= len
    [] v.s = "inf" -> TRUE
    [] v.s \in {"NaN", "-inf"} -> FALSE
    [] OTHER -> v.n >= len * denominator(v)
\* Not an index of the list
OutOfRange(v, len) == IsNegative(v) \/ IsNaN(v) \/ AtLeast(v, len)
OutOfBoundsError == error'[1] = "Runtime" /\ stage' = "done" /\ heap' = heap

\* C23: IndexGet on a list with a numeric index that is not in 0..len-1,
\* every negative index included, writes None without failing; IndexSet
\* with such an index ends the run with an out-of-bounds runtime error and
\* leaves the list unchanged.
C23_AsStated ==
  [][/\ (GetStep /\ OutOfRange(GetIndex, Len(GetItems))) =>
          stage' = "running" /\ error' = error /\ GetWritten = VNone
     /\ (SetStep /\ OutOfRange(SetIndex, Len(SetItems))) =>
          error' # <<>> /\ OutOfBoundsError]_vars

\* What holds: as stated for an index of len or more; an index below zero and
\* NaN are read as index 0, so on a list that is not empty IndexGet writes the
\* first element and IndexSet replaces it
C23_Saturating ==
  [][/\ GetStep =>
          /\ stage' = "running" /\ error' = error /\ heap' = heap
          /\ AtLeast(GetIndex, Len(GetItems)) => GetWritten = VNone
          /\ (IsNegative(GetIndex) \/ IsNaN(GetIndex)) =>
               GetWritten = IF GetItems = <<>> THEN VNone ELSE GetItems[1]
     /\ SetStep =>
          /\ AtLeast(SetIndex, Len(SetItems)) =>
               /\ error' # <<>> /\ OutOfBoundsError
               /\ error'[2] = "list index "
                    \o (IF SetIndex.s = "inf" THEN "18446744073709551615"
                        ELSE ToString(IF SetIndex.s = "" THEN SetIndex.n
                                      ELSE SetIndex.n \div denominator(SetIndex)))
                    \o " out of bounds"
          /\ (IsNegative(SetIndex) \/ IsNaN(SetIndex)) =>
               IF SetItems = <<>>
               THEN error' = <<"Runtime", "list index 0 out of bounds">> /\ OutOfBoundsError
               ELSE /\ stage' = "running" /\ error' = error
                    /\ heap'[get_register(CurVM, inst_a(cur_inst)).n].items =
                         [SetItems EXCEPT ![1] = get_register(CurVM, inst_c(cur_inst))]]_vars

\* The divergence: [10, 20][-1] = 7 replaces the first element
C23_Divergence ==
  /\ input = <<"index", <<2, "-1", "set">>>>
  /\ stage = "done" /\ error = <<>>
  /\ outputs = <<VNum(7)>>
\* [10, 20][-1] is 10
C23_GetDivergence ==
  /\ input = <<"index", <<2, "-1", "get">>>>
  /\ stage = "done" /\ error = <<>>
  /\ outputs = <<VNum(10)>>
\* let xs = [10, 20]; emit xs[-1]; emit xs[2]
C23_SourceDivergence ==
  /\ input = <<"source", <<20>>>>
  /\ stage = "done" /\ error = <<>>
  /\ outputs = <<VNum(10), VNone>>
\* Past the end: [10, 20][2] = 7 fails and [10, 20][inf] is none
C23_PastEndWitness ==
  /\ input = <<"index", <<2, "2", "set">>>>
  /\ stage = "done" /\ error = <<"Runtime", "list index 2 out of bounds">>
  /\ outputs = <<>>
  /\ heap[call_stack[1].registers[1].n].items = <<VNum(10), VNum(20)>>
C23_InfWitness ==
  /\ input = <<"index", <<2, "inf", "get">>>>
  /\ stage = "done" /\ error = <<>>
  /\ outputs = <<VNone>>


(***************************************************************************)
(* C24: undefined names.                                                   *)
(***************************************************************************)
\* A method Call whose receiver is the handle of a live agent, and its name
MethodCallStep ==
  /\ Dispatching({"Call"}) /\ inst_bx(cur_inst) = 65534
  /\ Frame.pc + 2 < Len(CodeOf(Frame))
  /\ inst_b(WordOf(Frame, Frame.pc + 1)) < Len(Frame.registers)
  /\ Frame.registers[inst_b(WordOf(Frame, Frame.pc + 1)) + 1].t = "AgentHandle"
  /\ Frame.registers[inst_b(WordOf(Frame, Frame.pc + 1)) + 1].n \in DOMAIN agents
  /\ inst_bx(WordOf(Frame, Frame.pc + 2)) < Len(module.constants)
  /\ module.constants[inst_bx(WordOf(Frame, Frame.pc + 2)) + 1].t = "Str"
CalledHandle == Frame.registers[inst_b(WordOf(Frame, Frame.pc + 1)) + 1].n
CalledName == module.constants[inst_bx(WordOf(Frame, Frame.pc + 2)) + 1].s
\* The names of the methods (of the memory fields) of the descriptor of h
MethodNames(h) ==
  {module.constants[MethodsOf(h)[i][1] + 1].s : i \in 1..Len(MethodsOf(h))}
FieldNames(h) ==
  LET fields == module.agents[agents[h].descriptor_idx + 1].memory_fields
  IN {module.constants[fields[i].name_idx + 1].s : i \in 1..Len(fields)}
\* An MLoad or MStore in a frame owned by a live agent, naming a field
MemoryStep(op) ==
  /\ Dispatching({op})
  /\ inst_a(cur_inst) < Len(Frame.registers)
  /\ inst_bx(cur_inst) < Len(module.constants)
  /\ module.constants[inst_bx(cur_inst) + 1].t = "Str"
  /\ IsSome(Frame.agent_id)
  /\ Unwrap(Frame.agent_id) \in DOMAIN agents
Owner == Unwrap(Frame.agent_id)
RuntimeFailure == stage' = "done" /\ error' # <<>> /\ error'[1] = "Runtime"

\* A call of a method the descriptor does not define ends the run
C24_Method ==
  (MethodCallStep /\ CalledName \notin MethodNames(CalledHandle)) =>
    /\ RuntimeFailure
    /\ error' = <<"Runtime", "method '" \o CalledName \o "' not found on agent">>
    /\ agents' = agents /\ SameRegisters /\ outputs' = outputs

\* C24: a method call on an agent handle naming a method its descriptor does
\* not define, and an MLoad or MStore naming a field the owning agent's
\* descriptor does not declare, each end the run with a runtime error and
\* leave every agent's memory unchanged.
C24_AsStated ==
  [][/\ C24_Method
     /\ \A op \in {"MLoad", "MStore"} :
          (MemoryStep(op) /\ FieldOf(cur_inst) \notin FieldNames(Owner)) =>
            RuntimeFailure /\ agents' = agents]_vars

\* What holds: the method call is fatal; an MLoad of a field that is not in
\* the memory writes None and the run goes on; an MStore of a field the
\* descriptor does not declare adds the field to the owner's memory
C24_UndeclaredFields ==
  [][/\ C24_Method
     /\ MemoryStep("MLoad") =>
          /\ stage' = "running" /\ error' = error /\ agents' = agents
          /\ FieldOf(cur_inst) \notin DOMAIN agents[Owner].memory =>
               call_stack'[Len(call_stack')].registers[inst_a(cur_inst) + 1] = VNone
     /\ MemoryStep("MStore") =>
          /\ stage' = "running" /\ error' = error
          /\ agents' = [agents EXCEPT ![Owner].memory =
                          MapInsert(@, FieldOf(cur_inst),
                                    Frame.registers[inst_a(cur_inst) + 1])]]_vars

\* The divergence: self.ghost = 5 adds the field and self.ghost reads it
C24_Divergence ==
  /\ input = <<"source", <<23>>>>
  /\ stage = "done" /\ error = <<>>
  /\ outputs = <<VNum(0), VNum(0), VNum(5), VNum(9)>>
  /\ "ghost" \in DOMAIN agents[1].memory
\* self.ghost of an agent that never stored it is none
C24_LoadDivergence ==
  /\ input = <<"source", <<22>>>>
  /\ stage = "done" /\ error = <<>>
  /\ outputs = <<VNum(0), VNone, VNum(9)>>
\* a.nope() ends the run
C24_MethodWitness ==
  /\ input = <<"source", <<21>>>>
  /\ stage = "done"
  /\ error = <<"Runtime", "method 'nope' not found on agent">>
  /\ outputs = <<VNum(0)>>


(***************************************************************************)
(* C25: no interleaving between agents.                                    *)
(***************************************************************************)
\* The frames are the same ones, and the top frame stays in its function,
\* one word further
StaysInFrame ==
  /\ Len(call_stack') = Len(call_stack)
  /\ Below(call_stack', Len(call_stack)) = Below(call_stack, Len(call_stack))
  /\ call_stack'[Len(call_stack')].function_idx = Frame.function_idx
  /\ call_stack'[Len(call_stack')].agent_id = Frame.agent_id
  /\ call_stack'[Len(call_stack')].pc = Frame.pc + 1

\* Spawn, Send and Recv push no frame and run no instruction of the agent
\* they name: the step stays in the frame and emits nothing
C25_NoActivation ==
  Dispatching({"Spawn", "Send", "Recv"}) =>
    /\ StaysInFrame
    /\ outputs' = outputs /\ sink' = sink /\ host_calls' = host_calls
    /\ \A h \in DOMAIN agents : agents'[h].memory = agents[h].memory

\* A frame owned by agent h is pushed only by a method Call whose receiver
\* register holds AgentHandle(h); no frame changes its owner
C25_FrameOwner ==
  /\ \A d \in 1..Len(call_stack) :
       d <= Len(call_stack') => call_stack'[d].agent_id = call_stack[d].agent_id
  /\ Len(call_stack') <= Len(call_stack) + 1
  /\ (Len(call_stack') = Len(call_stack) + 1 /\ IsSome(Callee.agent_id)) =>
       /\ Dispatching({"Call"}) /\ inst_bx(cur_inst) = 65534
       /\ Frame.registers[inst_b(WordOf(Frame, Frame.pc + 1)) + 1] =
            VAgentHandle(Unwrap(Callee.agent_id))

\* A mailbox changes only by a Send to its agent, which appends the value,
\* or by a Recv on its agent, which removes the oldest value
C25_Mailbox ==
  \A h \in DOMAIN agents :
    /\ h \in DOMAIN agents'
    /\ agents'[h].mailbox # agents[h].mailbox =>
         \/ /\ Dispatching({"Send"})
            /\ get_register(CurVM, inst_a(cur_inst)) = VAgentHandle(h)
            /\ agents'[h].mailbox =
                 Append(agents[h].mailbox, get_register(CurVM, inst_b(cur_inst)))
         \/ /\ Dispatching({"Recv"})
            /\ get_register(CurVM, inst_b(cur_inst)) = VAgentHandle(h)
            /\ agents[h].mailbox # <<>>
            /\ agents'[h].mailbox = Tail(agents[h].mailbox)
            /\ call_stack'[Len(call_stack')].registers[inst_a(cur_inst) + 1] =
                 Head(agents[h].mailbox)

\* The outputs and the mailboxes of a = 1 and b = 2 after the operations of
\* an actor program, run one after the other
RECURSIVE ActorReplay(_, _, _, _)
ActorReplay(ops, i, boxes, out) ==
  IF i > Len(ops) THEN [boxes |-> boxes, out |-> out]
  ELSE LET h == IF ops[i][2] = "a" THEN 1 ELSE 2
       IN CASE ops[i][1] = "send" ->
                 ActorReplay(ops, i + 1, [boxes EXCEPT ![h] = Append(@, VNum(10 + i))], out)
            [] ops[i][1] = "tell" ->
                 ActorReplay(ops, i + 1, [boxes EXCEPT ![2] = Append(@, VNum(10 + i))],
                             Append(out, VNum(3)))
            [] ops[i][1] = "hit" ->
                 ActorReplay(ops, i + 1, boxes, out \o <<VNum(1), VNum(2)>>)
            [] ops[i][1] = "recv" ->
                 IF boxes[h] = <<>> THEN ActorReplay(ops, i + 1, boxes, Append(out, VNone))
                 ELSE ActorReplay(ops, i + 1, [boxes EXCEPT ![h] = Tail(@)],
                                  Append(out, Head(boxes[h])))
C25_Replay ==
  (input[1] = "actor" /\ stage = "done") =>
    LET r == ActorReplay(input[2], 1, <<<<>>, <<>>>>, <<>>)
    IN /\ error = <<>>
       /\ outputs = r.out
       /\ agents[1].mailbox = r.boxes[1]
       /\ agents[2].mailbox = r.boxes[2]

\* C25: Spawn and Send never push a frame and never execute an instruction of
\* the target agent's methods; a frame with agent_id = h is created only by a
\* method Call whose receiver is AgentHandle(h); a value sent to h stays in
\* h's mailbox until a Recv on h removes it.
C25_NoInterleaving ==
  []C25_Replay /\ [][C25_NoActivation /\ C25_FrameOwner /\ C25_Mailbox]_vars

\* C25 witness: send a, 11; emit b.hit(); emit a.hit() leaves 11 in a's mailbox
C25_Witness ==
  /\ input = <<"actor", <<<<"send", "a">>, <<"hit", "b">>, <<"hit", "a">>>>>>
  /\ stage = "done" /\ error = <<>>
  /\ outputs = <<VNum(1), VNum(2), VNum(1), VNum(2)>>
  /\ agents[1].mailbox = <<VNum(11)>>
\* A Send inside a method of a: b runs nothing, the value waits for the Recv
C25_TellWitness ==
  /\ input = <<"actor", <<<<"tell", "a">>, <<"recv", "b">>, <<"recv", "b">>>>>>
  /\ stage = "done" /\ error = <<>>
  /\ outputs = <<VNum(3), VNum(11), VNone>>
\* A frame owned by a is on the stack while the Send to b is dispatched
C25_InMethodWitness ==
  /\ input[1] = "actor"
  /\ Len(call_stack) = 2
  /\ call_stack[2].agent_id = Some(1)
  /\ Dispatching({"Send"})
  /\ get_register(CurVM, inst_a(cur_inst)) = VAgentHandle(2)


(***************************************************************************)
(* The calls of agentus-ir on their own: a sequence of add_constant calls  *)
(* on Module::new(), and one instruction word built and decoded.  Here     *)
(* `outputs` holds what the calls returned, as numbers, in order.          *)
(***************************************************************************)
\* The constants handed to add_constant
PoolConstants ==
  {CNone, CBool(TRUE), CBool(FALSE), CNum(0), CNegZero, CNum(1), CNaN, CStr(""), CStr("x")}

\* Field values at the edges of their ranges
Around(n) == (n - EdgeWidth)..(n + EdgeWidth)
U8Fields == {x \in Around(0) \cup Around(U8 \div 2) \cup Around(U8 - 1) : x >= 0 /\ x < U8}
U16Fields ==
  {x \in Around(0) \cup Around(U8) \cup Around(U16 \div 2) \cup Around(U16 - 1) :
     x >= 0 /\ x < U16}
I16Fields ==
  {x \in Around(-(U16 \div 2)) \cup Around(-U8) \cup Around(0) \cup Around(U8)
         \cup Around(U16 \div 2 - 1) : x >= -(U16 \div 2) /\ x < U16 \div 2}
I24Fields ==
  {x \in Around(-(U24 \div 2)) \cup Around(-U16) \cup Around(-U8) \cup Around(0)
         \cup Around(U8) \cup Around(U16) \cup Around(U24 \div 2 - 1) :
     x >= -(U24 \div 2) /\ x < U24 \div 2}
OpCodes == {OpTable[k][1] : k \in 1..Len(OpTable)}
\* The opcodes the three-field words are built for
AbcOps == {"Nop", "Add", "Call", "Cast"}

UnitInputs ==
  {<<"pool", cs>> : cs \in SeqsUpTo(PoolConstants, MaxPoolOps)} \cup
  {<<"abc", <<op, a, b, c>>>> : op \in AbcOps, a \in U8Fields, b \in U8Fields, c \in U8Fields}
  \cup {<<"abc", <<op, 0, 0, 0>>>> : op \in OpCodes}
  \cup {<<"abx", <<op, a, bx>>>> : op \in OpCodes, a \in {0, U8 - 1}, bx \in U16Fields}
  \cup {<<"asbx", <<op, a, n>>>> : op \in OpCodes, a \in {0, U8 - 1}, n \in I16Fields}
  \cup {<<"sbx", <<op, n>>>> : op \in OpCodes, n \in I24Fields}

UnitInit ==
  /\ input \in UnitInputs
  /\ stage = "unit"
  /\ error = <<>>
  /\ module = NewModule
  /\ call_stack = NewVM.call_stack
  /\ agents = NewVM.agents
  /\ next_agent_id = NewVM.next_agent_id
  /\ outputs = NewVM.outputs
  /\ heap = NewVM.heap
  /\ mail_events = NewVM.mail_events
  /\ host = NewVM.host
  /\ host_calls = NewVM.host_calls
  /\ sink = NewVM.sink

\* module.add_constant(c) for the next constant of the input
AddConstant ==
  /\ stage = "unit" /\ input[1] = "pool"
  /\ Len(outputs) < Len(input[2])
  /\ LET r == add_constant(module, input[2][Len(outputs) + 1])
     IN IF r.panic
        THEN /\ stage' = "done" /\ error' = <<"Panic", "constant pool overflow">>
             /\ UNCHANGED <<module, outputs>>
        ELSE /\ module' = r.module
             /\ outputs' = Append(outputs, VNum(r.idx))
             /\ UNCHANGED <<stage, error>>
  /\ UNCHANGED <<input, call_stack, agents, next_agent_id, heap, mail_events, host,
                 host_calls, sink>>

\* Instruction::abc / abx / asbx / sbx: the word becomes the code of a function
Encode ==
  /\ stage = "unit" /\ input[1] # "pool"
  /\ LET f == input[2]
         word == CASE input[1] = "abc" -> abc(f[1], f[2], f[3], f[4])
                   [] input[1] = "abx" -> abx(f[1], f[2], f[3])
                   [] input[1] = "asbx" -> asbx(f[1], f[2], f[3])
                   [] input[1] = "sbx" -> sbx(f[1], f[2])
     IN module' = make_module(<<>>, <<word>>)
  /\ stage' = "encoded"
  /\ UNCHANGED <<input, error, call_stack, agents, next_agent_id, outputs, heap,
                 mail_events, host, host_calls, sink>>

\* opcode(), a(), b(), c(), bx(), sbx_16(), sbx_24() of the word
Decode ==
  /\ stage = "encoded"
  /\ LET w == module.functions[1].instructions[1]
     IN outputs' = <<VNum(opcode_byte(w)), VNum(inst_a(w)), VNum(inst_b(w)), VNum(inst_c(w)),
                     VNum(inst_bx(w)), VNum(sbx_16(w)), VNum(sbx_24(w))>>
  /\ stage' = "done"
  /\ UNCHANGED <<input, error, module, call_stack, agents, next_agent_id, heap,
                 mail_events, host, host_calls, sink>>

UnitNext == AddConstant \/ Encode \/ Decode

UnitSpec == UnitInit /\ [][UnitNext]_vars

(***************************************************************************)
(* C26: the constant pool.                                                 *)
(***************************************************************************)
Pool == module.constants
Added(k) == input[2][k]
Returned(k) == outputs[k].n
PoolRun == input[1] = "pool"
\* The call of this step, its constant and the index it returned
AddStep == PoolRun /\ Len(outputs') = Len(outputs) + 1
AddedNow == input[2][Len(outputs')]
ReturnedNow == outputs'[Len(outputs')].n
AppendOnly ==
  /\ Len(module'.constants) >= Len(Pool)
  /\ SubSeq(module'.constants, 1, Len(Pool)) = Pool

\* C26: after any sequence of add_constant calls no two pool indices hold
\* equal constants; add_constant(c) returns an index i with constants[i] = c,
\* the existing index when c is already present and the new last index
\* otherwise; a call never changes the constant at an index returned before.
C26_AsStated ==
  /\ [](PoolRun =>
          /\ \A i, j \in 1..Len(Pool) : i # j => Pool[i] # Pool[j]
          /\ \A k \in 1..Len(outputs) :
               Returned(k) < Len(Pool) /\ Pool[Returned(k) + 1] = Added(k))
  /\ [][AddStep =>
          /\ AppendOnly
          /\ IF \E i \in 1..Len(Pool) : Pool[i] = AddedNow
             THEN module' = module /\ Pool[ReturnedNow + 1] = AddedNow
             ELSE ReturnedNow = Len(Pool) /\ module'.constants = Append(Pool, AddedNow)]_vars

\* The same with `equal` and `constants[i] = c` read as the `==` of Constant
C26_AsStatedByEq ==
  [](PoolRun =>
       /\ \A i, j \in 1..Len(Pool) : i # j => ~constant_eq(Pool[i], Pool[j])
       /\ \A k \in 1..Len(outputs) :
            Returned(k) < Len(Pool) /\ constant_eq(Pool[Returned(k) + 1], Added(k)))

\* What holds: the statement for every constant that is == itself, with equal
\* read as `==`; Num(NaN) is appended by every call that adds it
C26_ExceptNaN ==
  /\ [](PoolRun =>
          /\ \A i, j \in 1..Len(Pool) : i # j => ~constant_eq(Pool[i], Pool[j])
          /\ \A k \in 1..Len(outputs) :
               /\ Returned(k) < Len(Pool)
               /\ Added(k) # CNaN => constant_eq(Pool[Returned(k) + 1], Added(k)))
  /\ [][AddStep =>
          /\ AppendOnly
          /\ IF \E i \in 1..Len(Pool) : constant_eq(Pool[i], AddedNow)
             THEN /\ module' = module
                  /\ constant_eq(Pool[ReturnedNow + 1], AddedNow)
                  /\ \A j \in 1..ReturnedNow : ~constant_eq(Pool[j], AddedNow)
             ELSE ReturnedNow = Len(Pool) /\ module'.constants = Append(Pool, AddedNow)]_vars

\* The divergence: add_constant(Num(NaN)) twice returns 0 and 1
C26_Divergence ==
  /\ input = <<"pool", <<CNaN, CNaN>>>>
  /\ outputs = <<VNum(0), VNum(1)>>
  /\ Pool = <<CNaN, CNaN>>
\* add_constant(Num(0.0)), then add_constant(Num(-0.0)) returns the index of 0.0
C26_ZeroDivergence ==
  /\ input = <<"pool", <<CNum(0), CNegZero>>>>
  /\ outputs = <<VNum(0), VNum(0)>>
  /\ Pool = <<CNum(0)>>
\* add(Str "x") twice yields the same index
C26_DedupWitness ==
  /\ input = <<"pool", <<CStr("x"), CNum(1), CStr("x")>>>>
  /\ outputs = <<VNum(0), VNum(1), VNum(0)>>
  /\ Pool = <<CStr("x"), CNum(1)>>


(***************************************************************************)
(* C27: instruction encoding round-trips.                                  *)
(***************************************************************************)
\* The word that was built, and what decoding it returned
BuiltWord == module.functions[1].instructions[1]
Decoded ==
  [opcode_byte |-> outputs[1].n, a |-> outputs[2].n, b |-> outputs[3].n, c |-> outputs[4].n,
   bx |-> outputs[5].n, sbx_16 |-> outputs[6].n, sbx_24 |-> outputs[7].n]

\* C27: decoding a word built by abc, abx, asbx or sbx returns the opcode and
\* the fields it was built from: A, B and C of abc, A and Bx of abx, A and the
\* signed sBx of asbx, and the signed 24-bit offset of sbx for every offset
\* in [-2^23, 2^23 - 1].
C27_RoundTrip ==
  (stage = "done" /\ input[1] \in {"abc", "abx", "asbx", "sbx"}) =>
    LET f == input[2]
    IN /\ opcode(BuiltWord) = Some(f[1])
       /\ from_byte(Decoded.opcode_byte) = Some(f[1])
       /\ input[1] = "abc" =>
            Decoded.a = f[2] /\ Decoded.b = f[3] /\ Decoded.c = f[4]
       /\ input[1] = "abx" => Decoded.a = f[2] /\ Decoded.bx = f[3]
       /\ input[1] = "asbx" => Decoded.a = f[2] /\ Decoded.sbx_16 = f[3]
       /\ input[1] = "sbx" => Decoded.sbx_24 = f[2]

\* C27 witness: sbx(Jmp, -1) has all 24 offset bits set and decodes to -1
C27_Witness ==
  /\ input = <<"sbx", <<"Jmp", -1>>>>
  /\ stage = "done"
  /\ BuiltWord = <<to_byte("Jmp"), 255, 255, 255>>
  /\ Decoded.sbx_24 = -1
\* The ends of the 24-bit range, and of the 16-bit range
C27_MinWitness ==
  /\ input = <<"sbx", <<"Jmp", -(U24 \div 2)>>>>
  /\ stage = "done"
  /\ BuiltWord = <<to_byte("Jmp"), 128, 0, 0>>
  /\ Decoded.sbx_24 = -8388608
C27_MaxWitness ==
  /\ input = <<"sbx", <<"Jmp", U24 \div 2 - 1>>>>
  /\ stage = "done"
  /\ Decoded.sbx_24 = 8388607
C27_SignedWitness ==
  /\ input = <<"asbx", <<"IterNext", 255, -32768>>>>
  /\ stage = "done"
  /\ Decoded.a = 255 /\ Decoded.sbx_16 = -32768 /\ Decoded.bx = 32768


(***************************************************************************)
(* The layout of a function's code as VM::run reads it: the words each     *)
(* opcode consumes, and the registers each group names.                    *)
(***************************************************************************)
\* The number of words the dispatch of words[i] consumes: the word itself and
\* the extra-data words its arm reads at pc
group_size(words, i) ==
  LET w == words[i]
  IN IF ~IsSome(opcode(w)) THEN 1
     ELSE CASE Unwrap(opcode(w)) = "Call" -> IF inst_bx(w) = 65534 THEN 3 ELSE 2
            [] Unwrap(opcode(w)) \in {"TCall", "IterNext"} -> 2
            [] OTHER -> 1

\* The indices the loop fetches at when it runs straight through from i
RECURSIVE group_starts(_, _)
group_starts(words, i) ==
  IF i > Len(words) THEN {}
  ELSE {i} \cup group_starts(words, i + group_size(words, i))

\* The registers the arm of words[i] reads or writes, extra words included
register_operands(words, i) ==
  LET w == words[i]
      op == IF IsSome(opcode(w)) THEN Unwrap(opcode(w)) ELSE "none"
      a == inst_a(w)
      b == inst_b(w)
      c == inst_c(w)
      extra == IF i + 1 <= Len(words) THEN words[i + 1] ELSE op_only("Nop")
      block(first, n) == {first + k : k \in 0..(n - 1)}
  IN CASE op \in {"LoadConst", "LoadNone", "LoadTrue", "LoadFalse", "MLoad", "MStore",
                  "JmpTrue", "JmpFalse", "Emit", "Ret", "Spawn"} -> {a}
       [] op \in {"Move", "Neg", "Not", "Len", "StrLen", "ListPush", "IterInit", "Send",
                  "Recv", "Exec"} -> {a, b}
       [] op \in ArithOps \cup CmpOps \cup
                 {"Eq", "Neq", "And", "Or", "Concat", "IndexGet", "IndexSet"} -> {a, b, c}
       [] op = "Log" -> {c}
       [] op = "NewList" -> {a} \cup block(b, c)
       [] op = "NewMap" -> {a} \cup block(b, 2 * c)
       [] op = "Call" /\ inst_bx(w) = 65534 ->
            {a, inst_b(extra)} \cup block(inst_b(extra), inst_c(extra))
       [] op \in {"Call", "TCall"} -> {a} \cup block(inst_b(extra), inst_c(extra))
       [] op = "IterNext" -> {a, inst_b(extra)}
       [] OTHER -> {}

(***************************************************************************)
(* C28: the register high-water mark.                                      *)
(***************************************************************************)
\* The module is the one Compiler::compile built from the input
Compiled == ~IsModule(input) /\ stage \in {"compiled", "running", "done"}
\* Compile has just built it; no later step changes `module`
JustCompiled == ~IsModule(input) /\ stage = "compiled"
\* Every register a group of the function names is below num_registers
RegistersFit(func) ==
  \A i \in group_starts(func.instructions, 1) :
    \A r \in register_operands(func.instructions, i) : r < func.num_registers
\* A register read past the end of the frame's registers ended the run
RegisterPanic == stage = "done" /\ error = <<"Panic", index_panic>>

\* C28 as stated: for every function of a compiled module (the entry function,
\* every fn definition, every agent method) num_registers is greater than
\* every register index its instructions and extra-data words read or write,
\* and no execution of a compiled module reads a register past the frame's
\* register file.
C28_AsStated ==
  /\ JustCompiled => \A k \in 1..Len(module.functions) : RegistersFit(module.functions[k])
  /\ Compiled => ~RegisterPanic


\* The inputs whose compiled code names a register at or past num_registers:
\* a list literal of two variables, and a declared name read as a value in a
\* function that has no register
PastTheFrame ==
  {<<"list", <<"ident", "ident">>>>} \cup
  {<<"nameuse", <<kind, "value", FALSE>>>> : kind \in DeclKinds}

\* C28, the part that holds: on every other input the registers of every
\* function fit and no run reads past the frame
C28_Elsewhere == (Compiled /\ input \notin PastTheFrame) => C28_AsStated

\* `let x = 5  emit [x, x]`: NewList r1, r1, 2 in a function of two registers
\* reads r2, and the run ends in the panic
C28_Divergence ==
  /\ input = <<"list", <<"ident", "ident">>>>
  /\ RegisterPanic
  /\ LET main == module.functions[module.entry_function + 1]
     IN /\ main.num_registers = 2
        /\ \E i \in group_starts(main.instructions, 1) :
             /\ main.instructions[i] = abc("NewList", 1, 1, 2)
             /\ 2 \in register_operands(main.instructions, i)
\* `tool n { p1 }  emit n`: Emit r0 in a function of no register
C28_NameDivergence ==
  /\ input = <<"nameuse", <<"tool", "value", FALSE>>>>
  /\ RegisterPanic
  /\ LET main == module.functions[module.entry_function + 1]
     IN main.num_registers = 0 /\ main.instructions[1] = op_a("Emit", 0)
\* A run whose groups name registers with extra words and whose registers fit
C28_FitWitness ==
  /\ Compiled /\ stage = "done" /\ error = <<>>
  /\ input[1] = "for"
  /\ \E k \in 1..Len(module.functions) :
       LET f == module.functions[k]
       IN /\ RegistersFit(f)
          /\ \E i \in group_starts(f.instructions, 1) :
               /\ opcode(f.instructions[i]) = Some("IterNext")
               /\ f.num_registers - 1 \in
                    UNION {register_operands(f.instructions, j) :
                             j \in group_starts(f.instructions, 1)}


(***************************************************************************)
(* C29: jump targets.                                                      *)
(***************************************************************************)
\* The index (from 0) a taken jump of the group at index `pos` sets pc to:
\* pc is already past the group's words when the offset is added
jump_target(words, pos) ==
  LET w == words[pos + 1]
  IN CASE opcode(w) = Some("Jmp") -> pos + 1 + sbx_24(w)
       [] opcode(w) \in {Some("JmpTrue"), Some("JmpFalse")} -> pos + 1 + sbx_16(w)
       [] opcode(w) = Some("IterNext") -> pos + 2 + sbx_16(w)
\* The indices (from 0) of the Jmp, JmpFalse and IterNext groups of a function
JumpGroups(func) ==
  {i - 1 : i \in {j \in group_starts(func.instructions, 1) :
                    opcode(func.instructions[j]) \in
                      {Some("Jmp"), Some("JmpFalse"), Some("IterNext")}}}
\* The index is inside the function and is the first word of a group
FirstWord(func, target) ==
  /\ target >= 0 /\ target < Len(func.instructions)
  /\ target + 1 \in group_starts(func.instructions, 1)
\* The extra-data words of the function's groups, as indices from 0
ExtraWords(func) ==
  (0..(Len(func.instructions) - 1)) \
    {i - 1 : i \in group_starts(func.instructions, 1)}
JumpsLand(func) ==
  \A pos \in JumpGroups(func) :
    /\ FirstWord(func, jump_target(func.instructions, pos))
    /\ jump_target(func.instructions, pos) \notin ExtraWords(func)

\* C29: for every Jmp, JmpFalse and IterNext the compiler emits, the target
\* (the jump word's index + 1 + offset, the IterNext index + 2 + offset) is an
\* index inside the same function and the first word of an instruction group,
\* never the extra-data word of a Call, method Call, TCall or IterNext group.
C29_JumpTargets ==
  JustCompiled => \A k \in 1..Len(module.functions) : JumpsLand(module.functions[k])

\* C29 witness: a compiled for loop; the jump back lands on the IterNext
\* word, not on its extra word, and the exhaustion jump behind the jump back
C29_Witness ==
  /\ Compiled /\ input[1] = "for"
  /\ \E k \in 1..Len(module.functions) :
       LET f == module.functions[k]
       IN /\ ExtraWords(f) # {}
          /\ \E p \in JumpGroups(f), q \in JumpGroups(f) :
               /\ opcode(f.instructions[p + 1]) = Some("IterNext")
               /\ opcode(f.instructions[q + 1]) = Some("Jmp")
               /\ jump_target(f.instructions, q) = p
               /\ jump_target(f.instructions, p) = q + 1
               /\ p + 1 \in ExtraWords(f)
\* An if with an else: the JmpFalse lands behind the Jmp over the else body
C29_IfWitness ==
  /\ Compiled /\ input[1] = "if"
  /\ \E k \in 1..Len(module.functions) :
       LET f == module.functions[k]
       IN \E p \in JumpGroups(f), q \in JumpGroups(f) :
            /\ opcode(f.instructions[p + 1]) = Some("JmpFalse")
            /\ opcode(f.instructions[q + 1]) = Some("Jmp")
            /\ jump_target(f.instructions, p) = q + 1
            /\ jump_target(f.instructions, q) > q + 1
\* A while loop: the Jmp goes back, the JmpFalse lands behind it
C29_WhileWitness ==
  /\ Compiled /\ input[1] = "while"
  /\ \E k \in 1..Len(module.functions) :
       LET f == module.functions[k]
       IN \E p \in JumpGroups(f), q \in JumpGroups(f) :
            /\ opcode(f.instructions[p + 1]) = Some("JmpFalse")
            /\ opcode(f.instructions[q + 1]) = Some("Jmp")
            /\ jump_target(f.instructions, q) < p
            /\ jump_target(f.instructions, p) = q + 1


(***************************************************************************)
(* C30: the compiler's groups and the dispatcher's.                        *)
(***************************************************************************)
\* The words the compiler emits as extra data: every Nop it emits follows a
\* Call, a TCall or an IterNext (indices from 1)
extra_data_words(words) == {i \in 1..Len(words) : opcode(words[i]) = Some("Nop")}
\* The dispatcher, reading the function from its first word, takes as extra
\* data exactly the words the compiler emitted as extra data
SameGroups(func) ==
  group_starts(func.instructions, 1) =
    (1..Len(func.instructions)) \ extra_data_words(func.instructions)
CurCode == code(CurVM, module)
\* The word fetched is the first word of a group
C30_Fetch ==
  /\ JustCompiled => \A k \in 1..Len(module.functions) : SameGroups(module.functions[k])
  /\ Compiled =>
    /\ Fetching =>
         /\ Pc + 1 \in group_starts(CurCode, 1)
         /\ Pc + 1 \notin extra_data_words(CurCode)
    /\ stage = "running" =>
         \A d \in 1..(Len(call_stack) - 1) :
           LET words ==
                 Unwrap(get_function(module, call_stack[d].function_idx)).instructions
           IN \/ call_stack[d].pc >= Len(words)
              \/ call_stack[d].pc + 1 \in group_starts(words, 1)
\* A dispatch that leaves its frame on the stack leaves its pc behind the
\* whole group, or at the target of the group's jump
IsJump == Dispatching({"Jmp", "JmpTrue", "JmpFalse", "IterNext"})
C30_Consumes ==
  (Compiled /\ Fetching /\ stage' = "running" /\ Len(call_stack') >= Len(call_stack)) =>
    \/ PcAfter = Pc + group_size(CurCode, Pc + 1)
    \/ IsJump /\ PcAfter = jump_target(CurCode, Pc)

\* C30: in every execution of a compiled module the word fetched for dispatch
\* is the first word of an instruction group; the extra-data words of Call
\* (1), method Call (2), TCall (1) and IterNext (1) are consumed by their
\* opcode and never dispatched, on the built-in-method path and after a
\* callee returns as well.
C30_GroupsAgree == []C30_Fetch /\ [][C30_Consumes]_vars

\* C30 witness: a built-in method call (two extra words) has been dispatched
\* and the next fetch is at the word behind its group
C30_Witness ==
  /\ Compiled /\ Fetching /\ Pc >= 3
  /\ opcode(CurCode[Pc - 2]) = Some("Call") /\ inst_bx(CurCode[Pc - 2]) = 65534
  /\ extra_data_words(CurCode) \cap {Pc - 1, Pc} = {Pc - 1, Pc}
  /\ Len(call_stack) = 1
  /\ \E r \in 1..Len(Frame.registers) : Frame.registers[r].t \in {"List", "Map"}
  /\ Pc - 2 \in group_starts(CurCode, 1)
\* A callee has returned and the caller goes on behind the extra word of Call
C30_ReturnWitness ==
  /\ Compiled /\ Fetching /\ Pc >= 2 /\ Len(call_stack) = 1
  /\ opcode(CurCode[Pc - 1]) = Some("Call") /\ inst_bx(CurCode[Pc - 1]) # 65534
  /\ Pc \in extra_data_words(CurCode)
  /\ outputs # <<>>
\* A tool call and the iteration of a for loop have been dispatched
C30_TCallWitness ==
  /\ Compiled /\ Fetching /\ Pc >= 2
  /\ opcode(CurCode[Pc - 1]) = Some("TCall")
  /\ Pc \in extra_data_words(CurCode)
  /\ host_calls # <<>>
C30_IterNextWitness ==
  /\ Compiled /\ Fetching /\ Pc >= 2
  /\ opcode(CurCode[Pc - 1]) = Some("IterNext")
  /\ Pc \in extra_data_words(CurCode)


(***************************************************************************)
(* C31: fetches stay inside the function.                                  *)
(***************************************************************************)
\* The top frame's pc is at or past the end of its function
PastEnd == Running /\ Pc >= Len(CurCode)
\* The group about to be dispatched lies inside the function, extra words too
C31_InBounds ==
  (Compiled /\ Running) =>
    \/ PastEnd
    \/ /\ Pc < Len(CurCode)
       /\ Pc + group_size(CurCode, Pc + 1) <= Len(CurCode)
\* A frame whose pc is at or past the end is popped, and nothing else happens
C31_Popped ==
  PastEnd =>
    /\ call_stack' = SubSeq(call_stack, 1, Len(call_stack) - 1)
    /\ UNCHANGED <<agents, next_agent_id, outputs, heap, mail_events, host_calls, sink,
                   error, module>>
    /\ stage' = "running"

\* C31: in every execution of a compiled module every instruction fetch and
\* every extra-data fetch uses an index below the length of the current
\* function, and a frame whose pc is at or past the length is popped before
\* anything is fetched.
C31_FetchInBounds == []C31_InBounds /\ [][C31_Popped]_vars

\* C31 witness: a method Call of a compiled module is about to be dispatched
\* and its two extra words are the next two words of the function
C31_Witness ==
  /\ Compiled /\ Fetching
  /\ opcode(cur_inst) = Some("Call") /\ inst_bx(cur_inst) = 65534
  /\ Pc + 3 <= Len(CurCode)
  /\ {Pc + 2, Pc + 3} \subseteq extra_data_words(CurCode)
\* A frame at the end of its function, about to be popped
C31_PastEndWitness == PastEnd /\ Len(call_stack) = 2
\* The last group of a compiled function ends on the function's last word
C31_LastWordWitness ==
  /\ Compiled /\ Fetching
  /\ opcode(cur_inst) = Some("RetNone")
  /\ Pc + 1 = Len(CurCode)


(***************************************************************************)
(* C32: the fall-through pop and RetNone.                                  *)
(***************************************************************************)
\* The frame below the top frame, and the register the top frame returns to
Caller == call_stack[Len(call_stack) - 1]
CallerAfter == call_stack'[Len(call_stack) - 1]
ResultReg == Unwrap(Frame.return_info)[3]
HasCaller == Running /\ Len(call_stack) >= 2 /\ IsSome(Frame.return_info)
\* The callee's frame ends at the end of its function: the caller's frame is
\* the new top frame, with every register as it was
C32_FallThrough ==
  (PastEnd /\ HasCaller) =>
    /\ Len(call_stack') = Len(call_stack) - 1
    /\ CallerAfter = Caller
    /\ stage' = "running"
\* RetNone in a callee: the frame is popped and None is in the caller's result
\* register, the other registers as they were
C32_RetNone ==
  (Executes({"RetNone"}) /\ HasCaller) =>
    /\ Len(call_stack') = Len(call_stack) - 1
    /\ CallerAfter.registers[ResultReg + 1] = VNone
    /\ \A r \in 1..Len(Caller.registers) :
         r # ResultReg + 1 => CallerAfter.registers[r] = Caller.registers[r]
    /\ CallerAfter.pc = Caller.pc
\* The run of the two callees: the register keeps "ab" after the callee that
\* falls through and holds None after the one that ends with RetNone
C32_Run ==
  (stage = "done" /\ input = <<"module", <<20>>>>) =>
    error = <<>> /\ outputs = <<VStr("ab"), VNone>>

\* C32: when a callee frame's pc reaches the end of its function without Ret
\* or RetNone the frame is popped and no register of the caller is written
\* (the result register keeps the value it had before the Call), whereas
\* RetNone writes None into the caller's result register.
C32_NoResult == []C32_Run /\ [][C32_FallThrough /\ C32_RetNone]_vars

\* C32 witness: the callee fell through and the caller's result register
\* still holds the value loaded before the Call
C32_Witness ==
  /\ input = <<"module", <<20>>>>
  /\ Running /\ Len(call_stack) = 1 /\ Pc = 4
  /\ Frame.registers[3] = VStr("ab")
\* The callee ended with RetNone and the result register holds None
C32_RetNoneWitness ==
  /\ input = <<"module", <<20>>>>
  /\ Running /\ Len(call_stack) = 1 /\ Pc = 7
  /\ Frame.registers[4] = VNone
\* A compiled function without return ends with the RetNone the compiler adds
C32_CompiledWitness ==
  /\ Compiled /\ Executes({"RetNone"}) /\ HasCaller
  /\ Caller.registers[ResultReg + 1] = VNone


(***************************************************************************)
(* C33: the agent of a frame.                                              *)
(***************************************************************************)
\* The words of the function of frame d, and the word `back` words before the
\* pc that frame d was parked at (the pc behind the group that called)
FrameCode(d) == Unwrap(get_function(module, call_stack[d].function_idx)).instructions
ParkedWord(d, back) == FrameCode(d)[call_stack[d].pc - back + 1]
\* Frame d is parked behind a three-word method Call, behind a two-word Call
ParkedAtMethodCall(d) ==
  /\ call_stack[d].pc >= 3
  /\ opcode(ParkedWord(d, 3)) = Some("Call") /\ inst_bx(ParkedWord(d, 3)) = 65534
  /\ opcode(ParkedWord(d, 2)) # Some("Call")
ParkedAtCall(d) ==
  /\ call_stack[d].pc >= 2
  /\ opcode(ParkedWord(d, 2)) = Some("Call") /\ inst_bx(ParkedWord(d, 2)) # 65534
\* The receiver of the method Call frame d is parked behind
ParkedReceiver(d) == call_stack[d].registers[inst_b(ParkedWord(d, 2)) + 1]

\* Every frame but the bottom one was pushed by the Call its caller is parked
\* behind: it has an agent exactly when that is a method Call, and then the
\* agent of the receiver; the bottom frame is the entry frame and has none
C33_Frames ==
  (stage = "running" /\ call_stack # <<>>) =>
    /\ call_stack[1].agent_id = None
    /\ call_stack[1].function_idx = module.entry_function
    /\ \A d \in 2..Len(call_stack) :
         /\ ParkedAtMethodCall(d - 1) \/ ParkedAtCall(d - 1)
         /\ ParkedAtMethodCall(d - 1) <=> IsSome(call_stack[d].agent_id)
         /\ ParkedAtMethodCall(d - 1) =>
              ParkedReceiver(d - 1) = VAgentHandle(Unwrap(call_stack[d].agent_id))
         /\ ParkedAtCall(d - 1) => call_stack[d].agent_id = None
\* The step that pushes a frame gives it its agent; no step changes the agent
\* of a frame
C33_Push ==
  /\ (Running /\ Len(call_stack') = Len(call_stack) + 1) =>
       /\ Dispatching({"Call"})
       /\ inst_bx(cur_inst) = 65534 =>
            Frame.registers[MethodReceiver + 1] = VAgentHandle(Unwrap(Callee.agent_id))
       /\ inst_bx(cur_inst) # 65534 => Callee.agent_id = None
  /\ \A d \in 1..Len(call_stack) :
       d <= Len(call_stack') => call_stack'[d].agent_id = call_stack[d].agent_id
  /\ (stage = "compiled" /\ stage' = "running") =>
       Len(call_stack') = 1 /\ call_stack'[1].agent_id = None

\* C33: a frame on the call stack has an agent_id if and only if it was pushed
\* by the agent-method branch of a Call with Bx = 0xFFFE, and then its agent_id
\* is the id of that call's receiver; the entry frame and every frame pushed
\* by a plain function Call, even from inside an agent method, have none.
C33_AgentOfFrame == []C33_Frames /\ [][C33_Push]_vars

\* C33 witness: a function called from inside an agent method runs in a frame
\* without agent, above the method's frame
C33_Witness ==
  /\ Running /\ Len(call_stack) = 3
  /\ call_stack[1].agent_id = None
  /\ IsSome(call_stack[2].agent_id)
  /\ call_stack[3].agent_id = None
\* A method called from inside a method of another agent
C33_NestedWitness ==
  /\ Running /\ Len(call_stack) = 3
  /\ IsSome(call_stack[2].agent_id) /\ IsSome(call_stack[3].agent_id)
  /\ call_stack[2].agent_id # call_stack[3].agent_id


(***************************************************************************)
(* C34: built-in methods.                                                  *)
(***************************************************************************)
\* A method Call whose name word names a string constant and whose receiver
\* register holds a List, Map or Str is being dispatched
BuiltInCall ==
  /\ Executes({"Call"}) /\ inst_bx(cur_inst) = 65534
  /\ Pc + 2 < Len(CurCode)
  /\ inst_bx(WordOf(Frame, Pc + 2)) < Len(module.constants)
  /\ module.constants[inst_bx(WordOf(Frame, Pc + 2)) + 1].t = "Str"
  /\ MethodReceiver < Len(Frame.registers)
  /\ Holds(MethodReceiver, {"List", "Map", "Str"})
ReceiverKind == Frame.registers[MethodReceiver + 1].t
\* The built-in methods of each kind of receiver, and how the error names it
BuiltIns(kind) ==
  CASE kind = "List" -> {"push", "len"}
    [] kind = "Map" -> {"len", "keys", "values", "contains", "remove"}
    [] kind = "Str" -> {"len"}
KindWord(kind) ==
  CASE kind = "List" -> "list" [] kind = "Map" -> "map" [] kind = "Str" -> "string"
MethodArgs == inst_c(WordOf(Frame, Pc + 1))
MethodResult == RegistersAfter[inst_a(cur_inst) + 1]
MethodArg == Frame.registers[MethodReceiver + 2]
\* Two sequences with the same elements, each as often
SameElements(s, t) ==
  /\ Len(s) = Len(t)
  /\ \A x \in {s[i] : i \in 1..Len(s)} \cup {t[i] : i \in 1..Len(t)} :
       Cardinality({i \in 1..Len(s) : s[i] = x}) = Cardinality({i \in 1..Len(t) : t[i] = x})
\* What the built-in leaves in r(A)
BuiltInResult ==
  LET items == CellOf(MethodReceiver).items
  IN CASE ReceiverKind = "List" /\ MethodName = "push" -> MethodResult = VNone
       [] ReceiverKind \in {"List", "Map"} /\ MethodName = "len" ->
            MethodResult = VNum(Len(items))
       [] ReceiverKind = "Str" -> 
            MethodResult = VNum(str_len(Frame.registers[MethodReceiver + 1].s))
       [] MethodName = "keys" ->
            /\ MethodResult.t = "List"
            /\ SameElements(heap'[MethodResult.n].items,
                            [i \in 1..Len(items) |-> VStr(items[i][1])])
       [] MethodName = "values" ->
            /\ MethodResult.t = "List"
            /\ SameElements(heap'[MethodResult.n].items,
                            [i \in 1..Len(items) |-> items[i][2]])
       [] MethodName = "contains" ->
            MethodResult = VBool(map_contains(items, to_string(heap, MethodArg)))
       [] MethodName = "remove" ->
            MethodResult =
              (IF map_contains(items, to_string(heap, MethodArg))
               THEN Unwrap(map_get(items, to_string(heap, MethodArg))) ELSE VNone)
\* No frame, three words on, the result in r(A); a name that is no built-in
\* of the receiver's kind ends the run
C34_Step ==
  BuiltInCall =>
    /\ Succeeds =>
         /\ Len(call_stack') = Len(call_stack)
         /\ PcAfter = Pc + 3
         /\ MethodName \in BuiltIns(ReceiverKind)
         /\ BuiltInResult
         /\ call_stack'[Len(call_stack)].function_idx = Frame.function_idx
    /\ ~Succeeds =>
         /\ stage' = "done" /\ error' # <<>> /\ error'[1] \in {"Runtime", "Panic"}
         /\ Len(call_stack') <= Len(call_stack)
    /\ MethodName \notin BuiltIns(ReceiverKind) =>
         /\ stage' = "done"
         /\ error' = <<"Runtime", "unknown " \o KindWord(ReceiverKind) \o " method '" \o
                                  MethodName \o "'">>

\* C34: a method Call whose receiver is a List, Map or Str never creates a
\* frame: the depth of the call stack is unchanged, the pc ends three words
\* past the Call word, the result of the built-in is in r(A), and a method
\* name that is no built-in of the receiver's type ends the run with a runtime
\* error even when an agent defines a method of that name.
C34_BuiltIns == [][C34_Step]_vars

\* C34 witness: "x" is a method of the agent in r7; called on a list it ends
\* the run
C34_Witness ==
  /\ input = <<"builtin", <<"list", "x", 2>>>>
  /\ stage = "done"
  /\ error = <<"Runtime", "unknown list method 'x'">>
  /\ agents # << >>
\* The same call on the agent pushes the frame of function 1
C34_AgentWitness ==
  /\ input = <<"builtin", <<"agent", "x", 2>>>>
  /\ Running /\ Len(call_stack) = 2 /\ Frame.function_idx = 1
\* push on a list: None in r(A), the list one longer, the pc behind the group
C34_PushWitness ==
  /\ input = <<"builtin", <<"list", "push", 2>>>>
  /\ Running /\ Len(call_stack) = 1 /\ Pc = 12
  /\ Frame.registers[7] = VNone
  /\ heap[Frame.registers[5].n].items = <<VNum(3), VStr("k1")>>
\* keys on a map of two entries
C34_KeysWitness ==
  /\ input = <<"builtin", <<"map", "keys", 1>>>>
  /\ Running /\ Len(call_stack) = 1 /\ Pc = 12
  /\ Frame.registers[7].t = "List"
  /\ heap[Frame.registers[7].n].items = <<VStr("k2"), VStr("k1")>>
\* remove on a map, len on a string
C34_RemoveWitness ==
  /\ input = <<"builtin", <<"map", "remove", 2>>>>
  /\ stage = "done" /\ error = <<>>
  /\ outputs = <<VNum(3), VNum(1)>>
C34_StrWitness ==
  /\ input = <<"builtin", <<"str", "len", 1>>>>
  /\ stage = "done" /\ error = <<>>
  /\ outputs = <<VNum(2), VNum(2)>>


(***************************************************************************)
(* C35: the call-target tables of a nested emitter.                        *)
(***************************************************************************)
ScopeInput == input[1] = "scope"
ScopeCallee == input[2][2]
ScopeOuter == input[2][4]
\* The names the first n statements declare as functions, agents or tools
DeclaredIn(stmts, n) ==
  {stmts[j].name : j \in {j \in 1..n : stmts[j].k \in {"FnDef", "AgentDef", "ToolDef"}}}
\* The nested definition of the program, and the body that holds the call
NestedAt == CHOOSE i \in 1..Len(Program(input)) : Program(input)[i].name \in {"f", "A"}
NestedBody ==
  LET def == Program(input)[NestedAt]
  IN IF def.k = "FnDef" THEN def.body ELSE def.methods[1].body
\* Defined before the definition in the enclosing scope; defined in the body
\* before the call, its last statement
Snapshot == DeclaredIn(Program(input), NestedAt - 1)
InBody == DeclaredIn(NestedBody, Len(NestedBody) - 1)
\* The call after the definition resolves against the declarations of its
\* own scope; a.f() is a method call and resolves at run time
OuterResolves ==
  \/ input[2][1] = "method" /\ ScopeOuter = "f"
  \/ ScopeOuter \in DeclaredIn(Program(input), Len(Program(input)))
Undefined(name) == <<"Codegen", "undefined function or tool '" \o name \o "'">>
\* The index of the function, agent or tool of the module with this name
HasName(d, name) ==
  d.name_idx < Len(module.constants) /\ module.constants[d.name_idx + 1] = CStr(name)
FunctionNamed(name) ==
  CHOOSE i \in 0..(Len(module.functions) - 1) : HasName(module.functions[i + 1], name)
\* The call in the compiled body names its target by index
CallResolved ==
  LET words == module.functions[FunctionNamed("f") + 1].instructions
      word(op, table) ==
        \E i \in 1..Len(words) :
          /\ opcode(words[i]) = Some(op)
          /\ inst_bx(words[i]) < Len(table)
          /\ HasName(table[inst_bx(words[i]) + 1], ScopeCallee)
  IN CASE ScopeCallee = "B" -> word("Spawn", module.agents)
       [] ScopeCallee = "T" -> word("TCall", module.tools)
       [] OTHER -> word("Call", module.functions)
\* What Compiler::compile leaves when the call in the body sees `visible`
ScopeOutcome(visible) ==
  IF ScopeCallee \notin visible THEN stage = "done" /\ error = Undefined(ScopeCallee)
  ELSE IF ~OuterResolves THEN stage = "done" /\ error = Undefined(ScopeOuter)
  ELSE /\ ~(stage = "done" /\ error # <<>> /\ error[1] = "Codegen")
       /\ stage = "compiled" => CallResolved
Compiling == ScopeInput /\ stage # "resolved"

\* C35 as stated: a call in the body of a nested function or method resolves
\* exactly against the functions, agents and tools defined before that
\* definition in the enclosing scope, and definitions inside the body are not
\* added to the enclosing scope's tables.
C35_AsStated == Compiling => ScopeOutcome(Snapshot)

\* C35: a call in the body of a nested function or method resolves exactly
\* against the functions, agents and tools defined before that definition in
\* the enclosing scope and those defined earlier in the body itself; the
\* function being defined is not among them, and definitions inside the body
\* are not added to the enclosing scope's tables.
C35_Snapshots == Compiling => ScopeOutcome(Snapshot \cup InBody)

\* C35 witness: the body calls g, defined before f, and the run emits 1
C35_Witness ==
  /\ input = <<"scope", <<"fn", "g", FALSE, "f">>>>
  /\ stage = "done" /\ error = <<>> /\ outputs = <<VNum(1)>>
\* The function calls itself, or k defined after it: no such function
C35_SelfWitness ==
  /\ input = <<"scope", <<"fn", "f", FALSE, "k">>>>
  /\ stage = "done" /\ error = Undefined("f")
C35_LaterWitness ==
  /\ input = <<"scope", <<"method", "k", TRUE, "k">>>>
  /\ stage = "done" /\ error = Undefined("k")
\* h is defined in the body of f: the call after f does not see it
C35_InnerWitness ==
  /\ input = <<"scope", <<"fn", "g", TRUE, "h">>>>
  /\ stage = "done" /\ error = Undefined("h")
\* h is defined in the body before the call: the call resolves and emits 2
C35_Divergence ==
  /\ input = <<"scope", <<"method", "h", TRUE, "f">>>>
  /\ stage = "done" /\ error = <<>> /\ outputs = <<VNum(2)>>


(***************************************************************************)
(* C36: distinct locals.                                                   *)
(***************************************************************************)
AliasInput == input[1] = "alias"
AliasDone == AliasInput /\ stage = "done"
\* a and b after the assignment, as the two emits show them: the assigned
\* local holds 2, the other one still 1
Independent ==
  /\ error = <<>>
  /\ outputs = IF input[2][2] = "a" THEN <<VNum(2), VNum(1)>> ELSE <<VNum(1), VNum(2)>>

\* C36: distinct local variables hold independent values: after `let b = a` an
\* assignment to b does not change the value read through a, and an
\* assignment to a does not change the value read through b.
C36_AsStated == AliasDone => Independent

\* Where the claim holds: b made by an expression that allocates a register,
\* or by an assignment, is independent of a; b made by `let b = a` is a
\* second name of a's register and both emits show the assigned value
C36_Elsewhere ==
  AliasDone =>
    IF input[2][1] = "ident"
    THEN error = <<>> /\ outputs = <<VNum(2), VNum(2)>>
    ELSE Independent

\* let a = 1  let b = a  b = 2  emit a  emit b: 2 2
C36_Divergence ==
  /\ input = <<"alias", <<"ident", "b">>>>
  /\ stage = "done" /\ error = <<>> /\ outputs = <<VNum(2), VNum(2)>>
\* let a = 1  let b = a  a = 2  emit a  emit b: 2 2
C36_OtherDivergence ==
  /\ input = <<"alias", <<"ident", "a">>>>
  /\ stage = "done" /\ error = <<>> /\ outputs = <<VNum(2), VNum(2)>>
\* let b = a + 0 keeps them apart
C36_SumWitness ==
  /\ input = <<"alias", <<"sum", "b">>>>
  /\ stage = "done" /\ error = <<>> /\ outputs = <<VNum(1), VNum(2)>>


(***************************************************************************)
(* C37: frames are isolated.                                               *)
(***************************************************************************)
\* The arguments a Call hands over: the block of the extra-data word, without
\* the receiver when the Call is a method call
PassedFirst ==
  IF inst_bx(cur_inst) = 65534 THEN inst_b(WordOf(Frame, Pc + 1)) + 1
  ELSE inst_b(WordOf(Frame, Pc + 1))
PassedCount ==
  LET n == inst_c(WordOf(Frame, Pc + 1))
  IN IF inst_bx(cur_inst) = 65534 THEN (IF n > 0 THEN n - 1 ELSE 0) ELSE n
\* The frames below frame d keep their registers
BelowUntouched(d) ==
  \A k \in 1..(d - 1) : call_stack'[k].registers = call_stack[k].registers
\* A pushed frame: the arguments in r(0)..r(n-1), None in every other
\* register, at least the function's num_registers of them
C37_Push ==
  (Running /\ stage' = "running" /\ Len(call_stack') = Len(call_stack) + 1) =>
    /\ Executes({"Call"})
    /\ Len(Callee.registers) >=
         Unwrap(get_function(module, Callee.function_idx)).num_registers
    /\ \A i \in 1..Len(Callee.registers) :
         Callee.registers[i] =
           IF i <= PassedCount THEN Frame.registers[PassedFirst + i] ELSE VNone
    /\ BelowUntouched(Len(call_stack) + 1)
\* A popped frame: only the result register of the frame below is written
C37_Pop ==
  (Running /\ stage' = "running" /\ Len(call_stack) >= 2
           /\ Len(call_stack') = Len(call_stack) - 1) =>
    /\ BelowUntouched(Len(call_stack) - 1)
    /\ Len(CallerAfter.registers) >= Len(Caller.registers)
    /\ \A r \in 1..Len(CallerAfter.registers) :
         \/ IsSome(Frame.return_info) /\ r = ResultReg + 1
         \/ CallerAfter.registers[r] =
              IF r <= Len(Caller.registers) THEN Caller.registers[r] ELSE VNone
\* Every other step writes registers of the running frame only
C37_Step ==
  (Running /\ stage' = "running" /\ Len(call_stack') = Len(call_stack)) =>
    BelowUntouched(Len(call_stack))
\* The function activated twice finds None in r1 both times, and the caller's
\* r1 is as the caller left it
C37_Run ==
  (stage = "done" /\ input = <<"module", <<21>>>>) =>
    /\ error = <<>>
    /\ outputs = <<VNone, VNum(3), VNone, VStr("ab"), VStr("ab")>>

\* C37: frames are isolated: a Call together with its matching return changes
\* no register of the caller other than the result register r(A), and every
\* callee frame starts with all registers None except the parameter registers
\* filled from the arguments, so no value written by an earlier activation of
\* the same function is visible in a later one.
C37_Isolated == []C37_Run /\ [][C37_Push /\ C37_Pop /\ C37_Step]_vars

\* C37 witness: the second activation of function 1 starts with its argument
\* in r0 and None in r1 and r2, which the first activation had written
C37_Witness ==
  /\ input = <<"module", <<21>>>>
  /\ Running /\ Len(call_stack) = 2 /\ Pc = 0
  /\ outputs = <<VNone, VNum(3)>>
  /\ Frame.registers = <<VStr("ab"), VNone, VNone>>
\* Back in the caller after the second return: r2 holds the result, r0 and r1
\* what the caller had put there
C37_ReturnWitness ==
  /\ input = <<"module", <<21>>>>
  /\ Running /\ Len(call_stack) = 1 /\ Pc = 7
  /\ Frame.registers = <<VNum(3), VStr("ab"), VStr("ab"), VNone>>
\* A compiled method called a second time
C37_MethodWitness ==
  /\ input = <<"source", <<1>>>>
  /\ Running /\ Len(call_stack) = 2 /\ Pc = 0 /\ Len(outputs) = 2
  /\ \A i \in 1..Len(Frame.registers) : Frame.registers[i] = VNone


(***************************************************************************)
(* C38: the bottom frame.                                                  *)
(***************************************************************************)
\* The bottom frame is the entry function's and the only one without
\* return info
C38_Stack ==
  call_stack # <<>> =>
    /\ call_stack[1].function_idx = module.entry_function
    /\ ~IsSome(call_stack[1].return_info)
    /\ \A d \in 2..Len(call_stack) : IsSome(call_stack[d].return_info)
\* Ret A reads r(A) of the running frame; RetNone returns None
Returning ==
  /\ Executes({"Ret", "RetNone"})
  /\ cur_op = "Ret" => inst_a(cur_inst) < Len(Frame.registers)
ReturnValue == IF cur_op = "Ret" THEN Frame.registers[inst_a(cur_inst) + 1] ELSE VNone
\* A return writes the caller's result register when a caller remains, and
\* in the entry frame empties the stack and writes nothing
C38_Return ==
  Returning =>
    /\ stage' = "running" /\ error' = <<>>
    /\ call_stack' # <<>> <=> Len(call_stack) >= 2
    /\ Len(call_stack') = Len(call_stack) - 1
    /\ IF Len(call_stack) >= 2
       THEN /\ IsSome(Frame.return_info)
            /\ CallerAfter.registers[ResultReg + 1] = ReturnValue
            /\ BelowUntouched(Len(call_stack) - 1)
       ELSE call_stack' = <<>>
    /\ outputs' = outputs /\ heap' = heap /\ agents' = agents
\* With the stack empty the run ends, and ends without error
C38_Ends ==
  (stage = "running" /\ call_stack = <<>>) =>
    /\ stage' = "done" /\ error' = error /\ outputs' = outputs
    /\ call_stack' = <<>>

\* C38: in every reachable state with a non-empty call stack the bottom frame
\* is the entry function's frame and the only frame without return-info; Ret
\* and RetNone write a caller register exactly when a caller frame remains on
\* the stack, and a Ret or RetNone executed in the entry frame empties the
\* stack and ends the run successfully without writing any register.
C38_BottomFrame == []C38_Stack /\ [][C38_Return /\ C38_Ends]_vars

\* C38 witness: `return 2` at top level has emptied the stack: the run is
\* about to end with the one value emitted before it
C38_Witness ==
  /\ input = <<"source", <<14>>>>
  /\ stage = "running" /\ call_stack = <<>>
  /\ error = <<>> /\ outputs = <<VNum(1)>>
\* The run after a top-level `return` without value
C38_EndWitness ==
  /\ input = <<"source", <<15>>>>
  /\ stage = "done" /\ call_stack = <<>>
  /\ error = <<>> /\ outputs = <<VNum(1)>>
\* Three frames: only the bottom one lacks return info
C38_DeepWitness ==
  /\ Running /\ Len(call_stack) = 3
  /\ Executes({"Ret"})


(***************************************************************************)
(* C39: the resolver and the compiler on names.                            *)
(***************************************************************************)
\* The input went through Resolver::resolve and was accepted
ResolverAccepted ==
  /\ ~IsModule(input)
  /\ input[1] \notin {"ast", "mail", "tool", "names", "logic", "actor", "scope"}
  /\ ~(input[1] = "nameuse" /\ input[2][1] = "tool")
  /\ stage \in {"resolved", "compiled", "running", "done"}
  /\ ~(stage = "done" /\ error # <<>> /\ error[1] \in {"Lexer", "Parser", "Semantic"})
\* The names the programs use for variables
VariableNames ==
  {"x", "y", "p", "self", "a", "b", "n", "nope", "base", "xs", "ys", "l", "v", "d",
   "pad", "i", "f", "g", "m"}
\* Compiler::compile ended with undefined variable '<name>'
UndefinedVariable ==
  /\ stage = "done" /\ error # <<>> /\ error[1] = "Codegen"
  /\ \E name \in VariableNames :
       error[2] \in {"undefined variable '" \o name \o "'",
                     "undefined variable '" \o name \o "' in assignment"}

\* C39: name resolution agrees between the resolver and the compiler: every
\* program the resolver accepts compiles without an "undefined variable"
\* error, a variable of an enclosing scope referenced inside a function or
\* method body included.
C39_AsStated == ResolverAccepted => ~UndefinedVariable

\* Where the two agree and where not: parameters and locals of the body are
\* bound in the body's emitter; a variable of the enclosing scope and `self`
\* as a value are not, and the compiler rejects what the resolver accepted
C39_Elsewhere ==
  (input[1] = "outer" /\ stage = "done") =>
    CASE input[2][1] \in {"fn", "method"} ->
           error = <<"Codegen", "undefined variable 'x'">>
      [] input[2][1] = "assign" ->
           error = <<"Codegen", "undefined variable 'x' in assignment">>
      [] input[2][1] = "self" -> error = <<"Codegen", "undefined variable 'self'">>
      [] input[2][1] = "param" -> error = <<>> /\ outputs = <<VNum(5)>>
      [] input[2][1] = "local" -> error = <<>> /\ outputs = <<VNum(1)>>

\* let x = 5  fn f() { return x }  emit f(): accepted by the resolver,
\* rejected by the compiler
C39_Divergence ==
  /\ input = <<"outer", <<"fn">>>>
  /\ stage = "done" /\ error = <<"Codegen", "undefined variable 'x'">>
\* The resolver had accepted it
C39_AcceptedWitness ==
  /\ input = <<"outer", <<"fn">>>>
  /\ stage = "resolved" /\ error = <<>>
\* A parameter is bound in both
C39_ParamWitness ==
  /\ input = <<"outer", <<"param">>>>
  /\ stage = "done" /\ error = <<>> /\ outputs = <<VNum(5)>>


(***************************************************************************)
(* C40: two runs of one module.                                            *)
(***************************************************************************)
\* The emitted values as the sink prints them
Rendered == [i \in 1..Len(outputs) |-> to_string(heap, outputs[i])]
\* Modules that walk a map of two entries: keys, values, IterInit, Display
WalkInputs ==
  {<<"builtin", <<"map", "keys", 1>>>>, <<"builtin", <<"map", "values", 1>>>>,
   <<"snapmod", <<"map", 2, "insert">>>>, <<"module", <<22>>>>}
\* What such a module emits in the run that walks the map in the order the
\* entries were inserted, and in the run that walks it the other way round
InsertionOrderRun(in) ==
  CASE in = <<"builtin", <<"map", "keys", 1>>>> -> <<"[k1, k2]", "2">>
    [] in = <<"builtin", <<"map", "values", 1>>>> -> <<"[3, ab]", "2">>
    [] in = <<"snapmod", <<"map", 2, "insert">>>> -> <<"k1", "k2", "3">>
    [] in = <<"module", <<22>>>> -> <<"ab{\"x\": 3, \"ab\": 0}">>
ReverseOrderRun(in) ==
  CASE in = <<"builtin", <<"map", "keys", 1>>>> -> <<"[k2, k1]", "2">>
    [] in = <<"builtin", <<"map", "values", 1>>>> -> <<"[ab, 3]", "2">>
    [] in = <<"snapmod", <<"map", 2, "insert">>>> -> <<"k2", "k1", "3">>
    [] in = <<"module", <<22>>>> -> <<"ab{\"ab\": 0, \"x\": 3}">>
WalkDone == stage = "done" /\ input \in WalkInputs

\* C40: execution is deterministic: two runs of the same module against hosts
\* that return the same responses produce the same sequence of emitted values
\* and the same final result, also for modules that build maps with two keys
\* and iterate them, list their keys or values, or stringify them: every run
\* ends as the run that walks the map in insertion order ends.
C40_AsStated == WalkDone => (error = <<>> /\ Rendered = InsertionOrderRun(input))

\* What holds: the runs of such a module end without error and differ in the
\* order of the walk only
C40_Elsewhere ==
  WalkDone =>
    /\ error = <<>>
    /\ Rendered \in {InsertionOrderRun(input), ReverseOrderRun(input)}

\* Two runs of one module, keys() of {"k1": 3, "k2": "ab"}: [k1, k2] and [k2, k1]
C40_Divergence ==
  /\ input = <<"builtin", <<"map", "keys", 1>>>>
  /\ stage = "done" /\ error = <<>> /\ Rendered = <<"[k2, k1]", "2">>
C40_InsertionOrderWitness ==
  /\ input = <<"builtin", <<"map", "keys", 1>>>>
  /\ stage = "done" /\ error = <<>> /\ Rendered = <<"[k1, k2]", "2">>
\* IterInit on a map, and Display of a map
C40_IterDivergence ==
  /\ input = <<"snapmod", <<"map", 2, "insert">>>>
  /\ stage = "done" /\ error = <<>> /\ Rendered = <<"k2", "k1", "3">>
C40_DisplayDivergence ==
  /\ input = <<"module", <<22>>>>
  /\ stage = "done" /\ error = <<>> /\ Rendered = <<"ab{\"ab\": 0, \"x\": 3}">>
C40_DisplayWitness ==
  /\ input = <<"module", <<22>>>>
  /\ stage = "done" /\ error = <<>> /\ Rendered = <<"ab{\"x\": 3, \"ab\": 0}">>

====
